---- MODULE Spec2Model ----
(***************************************************************************)
(* Model of the translation orchestration core of i18n-app-translator:     *)
(* the catalog model (Parser), the batch orchestrator (Translator), the    *)
(* translate / review drivers, the vector DB clients and the glossary.      *)
(*                                                                         *)
(* Text is modelled as a tuple of one-character strings, so that joining   *)
(* key paths with "." and splitting keys on "." are computed, not assumed. *)
(***************************************************************************)
EXTENDS Integers, Sequences, FiniteSets, TLC

VARIABLES
    \* ---- catalog model (Parser) experiments
    ppc,            \* "roundtrip" | "flattened" | "rebuilt" | "diff" | "compared" |
                    \* "parse" | "parsed" | "parseError" | "off"
    catalog,        \* the nested catalog handed to flattenI18nData
    flat,           \* result of flattenI18nData(catalog)
    rebuilt,        \* result of buildI18nData(flat): [ok, data]
    cmpSource,      \* source entry list handed to compareI18nFiles
    cmpTarget,      \* target entry list handed to compareI18nFiles
    cmpResult,      \* result of compareI18nFiles: [missing, outdated]
    \* ---- one run of a driver (translate, review) or one direct batch call
    op,             \* "translate" | "review" | "batchTranslate" | "batchReview" | "off"
    allFlag,        \* review option `all`
    useVectorDB,    \* option useVectorDB
    concurrency,    \* option concurrency
    useGlossary,    \* option useGlossary
    glossaryFile,   \* the file at glossaryPath: "valid" | "malformed" | "absent" | "unwritable"
    sourceFile,     \* the file at `source`: "valid" | "malformed" | "absent" | "off"
    targetFile,     \* the file at `dest`: "valid" | "malformed" | "absent" | "off"
    sourceEntries,  \* the entries of the source file (or the list a direct caller passes)
    targetEntries,  \* the entries of the target file (or the list a direct caller passes);
                    \* [] when the file is absent or does not parse
    dpc,            \* driver position: "start" | "batch" | "done" | "exit1" | "off"
    client,         \* Translator.vectorDBClient is not null
    glossary,       \* Translator.glossary is not null
    handed,         \* the entry list the caller handed to the batch method
    work,           \* the list the batch loop runs over (entries / entriesToReview)
    bpc,            \* batch position: "idle" | "loop" | "awaiting" | "returned" | "rejected"
    bi,             \* loop variable i of the batch loop
    batchNumber,    \* the window index last reported ("Processing batch n/m"); Num(0): none yet
    window,         \* indices (into work) of the current batch slice
    est,            \* per work index: [st, translated, tries] of its per-entry promise;
                    \* tries counts the translateEntry / reviewEntry calls for the entry
    results,        \* the result Map: key -> ITranslationResult
    completed,      \* progress counter `completed`
    genCalls,       \* generation gateway calls issued (generate / review)
    termsSeen,      \* the glossaryTerms arguments those calls were given
    genFailed,      \* work indices whose generation call failed
    indexWrites,    \* records stored by successful addTranslation calls
    merged,         \* the entry list the driver handed to buildI18nData
    written,        \* number of saveI18nFile writes to dest
    destData,       \* the document written to dest
    \* ---- one vector DB client (utils/vectorDBClient.ts)
    backend,        \* "weaviate" | "pinecone" | "chroma" | "off"
    vReady,         \* initialize() has set client / index / collection
    vInitOk,        \* an initialize() call has resolved
    probes,         \* findSimilarTranslations and close calls made, with their outcomes
    store,          \* the records the backend holds, in creation order
    adds,           \* history of addTranslation calls: arguments and outcome
    \* ---- one Glossary object (utils/glossary.ts)
    gpc,            \* "ready" | "terms" | "off"
    glossaryEntries,\* Glossary.entries
    gOp,            \* the last method called: "addEntry" | "removeEntry" | "searchEntries" | "none"
    gArg,           \* its argument, as an entry (only the term counts for remove / search)
    gRet,           \* what it returned: [removed, found]
    \* ---- one translateEntry / reviewEntry call (utils/translator.ts)
    epc,            \* "start" | "finding" | "generating" | "storing" | "resolved" | "rejected" | "off"
    eMethod,        \* "translateEntry" | "reviewEntry" | "off"
    eEntry,         \* entry / sourceEntry
    eTarget,        \* targetEntry.value of reviewEntry
    eUseVectorDB,   \* options.useVectorDB
    eUseGlossary,   \* options.useGlossary
    eGlossary,      \* this.glossary: "none" | "terms" | "throws" (getEntriesForLanguage throws)
    eClient,        \* this.vectorDBClient is not null
    similarTranslations, \* local `similarTranslations`: [def, list]
    findCalls,      \* findSimilarTranslations calls: outcome of each
    generateCalls,  \* generation gateway calls: the arguments of each
    addCalls,       \* addTranslation calls: arguments and outcome of each
    eResult,        \* the ITranslationResult the call resolved with
    \* ---- one reviewTranslation call, from the backend's response on (utils/aiClient.ts)
    rpc,            \* "responded" | "returned" | "off"
    rText,          \* response.text
    rExisting,      \* argument existingTranslation
    rResult         \* the returned { improved, changes }

parserVars == <<ppc, catalog, flat, rebuilt, cmpSource, cmpTarget, cmpResult>>

inputVars == <<op, allFlag, useVectorDB, concurrency, useGlossary, glossaryFile,
               sourceFile, targetFile, sourceEntries, targetEntries>>

batchVars == <<work, bpc, bi, batchNumber, window, est, results, completed, genCalls, termsSeen,
               genFailed, indexWrites>>

runVars == <<inputVars, dpc, client, glossary, handed, batchVars, merged, written, destData>>

vdbVars == <<backend, vReady, vInitOk, store, adds, probes>>

glossaryVars == <<gpc, glossaryEntries, gOp, gArg, gRet>>

entryVars == <<epc, eMethod, eEntry, eTarget, eUseVectorDB, eUseGlossary, eClient, eGlossary,
               similarTranslations,
               findCalls, generateCalls, addCalls, eResult>>

responseVars == <<rpc, rText, rExisting, rResult>>

vars == <<parserVars, runVars, vdbVars, glossaryVars, entryVars, responseVars>>

-----------------------------------------------------------------------------
(* Bounds *)

\* nodes (leaves and nested objects) in a catalog handed to flattenI18nData
MaxNodes == 3
\* length of the source list handed to compareI18nFiles
MaxCmpSource == 3
\* length of the target list handed to compareI18nFiles
MaxCmpTarget == 2
\* entries in the source catalog of a run
MaxSource == 3
\* entries in the target catalog of a run
MaxTarget == 2
\* largest concurrency option of a run
MaxConcurrency == 2
\* addTranslation calls made on one vector DB client
MaxAdds == 3
\* findSimilarTranslations / close calls made on one vector DB client
MaxProbes == 2
\* how far below 0 the loop variable of a batch is followed
MaxRewind == 2
\* the lowest concurrency option of a direct batch call is -MaxNegative
MaxNegative == 1
\* languages of the translations maps of glossary entries
MaxLanguages == 2
\* similar examples findSimilarTranslations returns
MaxSimilar == 1
\* elements of an array in a JSON document
MaxArrayLen == 1
\* tokens in a response of the generation backend
MaxResponseLen == 7

-----------------------------------------------------------------------------
(* Text *)

DOT == "."

\* object keys of a catalog: plain, dotted and empty
KeyNames == { <<"a">>, <<"b">>, <<"a", DOT, "b">>, <<>> }

\* leaf strings of a catalog: a non-empty one and the empty string
LeafValues == { <<"x">>, <<>> }

\* `${prefix}.${key}`
JoinDot(prefix, key) == prefix \o <<DOT>> \o key

HasDot(s) == \E i \in 1..Len(s) : s[i] = DOT

FirstDot(s) == CHOOSE i \in 1..Len(s) : s[i] = DOT /\ \A j \in 1..(i - 1) : s[j] # DOT

\* String.prototype.split('.')
RECURSIVE Split(_)
Split(s) ==
    IF ~HasDot(s) THEN << s >>
    ELSE << SubSeq(s, 1, FirstDot(s) - 1) >> \o Split(SubSeq(s, FirstDot(s) + 1, Len(s)))

-----------------------------------------------------------------------------
(* I18nData: a JS object is the sequence of its properties in insertion    *)
(* order, keys unique.  A property is a string leaf or a nested object; a  *)
(* parsed JSON document can also hold numbers, booleans, nulls and arrays. *)
(* `leaf` is `typeof value === 'string'`; `c` is Object.entries(value).    *)

LeafNode(k, v) == [k |-> k, leaf |-> TRUE, v |-> v, c |-> <<>>, kind |-> "string"]
ObjNode(k, c) == [k |-> k, leaf |-> FALSE, v |-> <<>>, c |-> c, kind |-> "object"]

\* a number, a boolean or null: no string, and no own enumerable property
ValueNode(k, kind) == [k |-> k, leaf |-> FALSE, v |-> <<>>, c |-> <<>>, kind |-> kind]

\* the property names of the elements of an array
IndexKey(i) == << << "0", "1", "2", "3" >>[i] >>

\* an array: its entries are its elements under the keys "0", "1", ...
ArrayNode(k, elements) ==
    [k |-> k, leaf |-> FALSE, v |-> <<>>, kind |-> "array",
     c |-> [i \in 1..Len(elements) |-> [elements[i] EXCEPT !.k = IndexKey(i)]]]

ObjKeys(obj) == { obj[i].k : i \in 1..Len(obj) }

ObjHas(obj, k) == k \in ObjKeys(obj)

ObjIndex(obj, k) == CHOOSE i \in 1..Len(obj) : obj[i].k = k

\* obj[k] for a present key
ObjGet(obj, k) == obj[ObjIndex(obj, k)]

\* obj[k] = node: an existing property keeps its place, a new one is appended
ObjSet(obj, k, node) ==
    IF ObjHas(obj, k)
    THEN [obj EXCEPT ![ObjIndex(obj, k)] = node]
    ELSE Append(obj, node)

RECURSIVE NodeCount(_)
NodeCount(obj) ==
    IF obj = <<>> THEN 0
    ELSE 1 + (IF Head(obj).leaf THEN 0 ELSE NodeCount(Head(obj).c)) + NodeCount(Tail(obj))

\* every catalog with at most n nodes
RECURSIVE Catalogs(_)
Catalogs(n) ==
    IF n = 0 THEN { <<>> }
    ELSE { <<>> } \cup
         UNION { UNION { { << nd >> \o rest :
                               rest \in { r \in Catalogs(n - 1 - m) : ~ObjHas(r, nd.k) } } :
                           nd \in { LeafNode(k, v) : k \in KeyNames, v \in (IF m = 0 THEN LeafValues ELSE {}) }
                                  \cup { ObjNode(k, c) : k \in KeyNames,
                                                        c \in { x \in Catalogs(m) : NodeCount(x) = m } } } :
                   m \in 0..(n - 1) }

\* structural equality of two I18nData values (property order is irrelevant)
RECURSIVE DeepEqual(_, _)
DeepEqual(x, y) ==
    /\ ObjKeys(x) = ObjKeys(y)
    /\ \A k \in ObjKeys(x) :
          LET p == ObjGet(x, k)
              q == ObjGet(y, k)
          IN /\ p.leaf = q.leaf
             /\ IF p.leaf THEN p.v = q.v ELSE DeepEqual(p.c, q.c)

-----------------------------------------------------------------------------
(* Parser *)

Entry(k, v) == [key |-> k, value |-> v]

\* flattenI18nData with the prefix dropped from the key of a nested entry
RECURSIVE flattenI18nData_NoPrefix(_, _)
flattenI18nData_NoPrefix(data, prefix) ==
    IF data = <<>> THEN <<>>
    ELSE LET nd == Head(data)
         IN (IF nd.leaf THEN << Entry(nd.k, nd.v) >> ELSE flattenI18nData_NoPrefix(nd.c, nd.k))
            \o flattenI18nData_NoPrefix(Tail(data), prefix)

\* Parser.flattenI18nData(data, prefix): depth first, in property order
RECURSIVE flattenI18nData(_, _)
flattenI18nData(data, prefix) ==
    IF data = <<>> THEN <<>>
    ELSE LET nd == Head(data)
             fullKey == IF prefix # <<>> THEN JoinDot(prefix, nd.k) ELSE nd.k
         IN (IF nd.leaf THEN << Entry(fullKey, nd.v) >> ELSE flattenI18nData(nd.c, fullKey))
            \o flattenI18nData(Tail(data), prefix)

\* Object.entries(null) in the recursive call: a TypeError
RECURSIVE FlattenThrows(_)
FlattenThrows(data) ==
    \E i \in 1..Len(data) : data[i].kind = "null" \/ FlattenThrows(data[i].c)

\* Parser.parseI18nFile on a file that holds the JSON document `data`: the
\* flattened entries, or the error flattenI18nData threw
parseI18nFile(data) ==
    IF FlattenThrows(data) THEN [ok |-> FALSE, entries |-> <<>>]
    ELSE [ok |-> TRUE, entries |-> flattenI18nData(data, <<>>)]

\* `!current[part]`: the property is absent or an empty string
Falsy(obj, part) == ~ObjHas(obj, part) \/ (ObjGet(obj, part).leaf /\ ObjGet(obj, part).v = <<>>)

\* the inner loop and the final assignment of buildI18nData for one entry;
\* ok = FALSE is the TypeError of assigning a property on a string primitive
RECURSIVE SetPath(_, _, _)
SetPath(current, parts, value) ==
    IF Len(parts) = 1
    THEN [ok |-> TRUE, data |-> ObjSet(current, parts[1], LeafNode(parts[1], value))]
    ELSE LET part == Head(parts)
         IN IF Falsy(current, part)
            THEN LET r == SetPath(<<>>, Tail(parts), value)
                 IN [ok |-> r.ok, data |-> ObjSet(current, part, ObjNode(part, r.data))]
            ELSE IF ObjGet(current, part).leaf
                 THEN [ok |-> FALSE, data |-> current]
                 ELSE LET r == SetPath(ObjGet(current, part).c, Tail(parts), value)
                      IN [ok |-> r.ok, data |-> ObjSet(current, part, ObjNode(part, r.data))]

RECURSIVE BuildFrom(_, _)
BuildFrom(data, entries) ==
    IF entries = <<>> THEN [ok |-> TRUE, data |-> data]
    ELSE LET r == SetPath(data, Split(Head(entries).key), Head(entries).value)
         IN IF r.ok THEN BuildFrom(r.data, Tail(entries)) ELSE [ok |-> FALSE, data |-> <<>>]

\* Parser.buildI18nData(entries)
buildI18nData(entries) == BuildFrom(<<>>, entries)

\* the Map built with the first entry of a key kept
KeyMap_FirstWins(entries) ==
    [k \in { entries[j].key : j \in 1..Len(entries) } |->
        CHOOSE j \in 1..Len(entries) :
            entries[j].key = k /\ \A h \in 1..(j - 1) : entries[h].key # k]

\* `new Map()` filled by targetEntries.forEach(e => map.set(e.key, e)): a key maps
\* to the index of the last entry that carries it
KeyMap(entries) ==
    [k \in { entries[j].key : j \in 1..Len(entries) } |->
        CHOOSE j \in 1..Len(entries) :
            entries[j].key = k /\ \A h \in (j + 1)..Len(entries) : entries[h].key # k]

MapHas(map, k) == k \in DOMAIN map

\* compareI18nFiles with the push to `missing` forgotten
RECURSIVE CompareLoop_NoMissingPush(_, _, _, _, _)
CompareLoop_NoMissingPush(sources, targets, targetMap, i, acc) ==
    IF i > Len(sources) THEN acc
    ELSE LET sourceEntry == sources[i]
         IN IF ~MapHas(targetMap, sourceEntry.key)
            THEN CompareLoop_NoMissingPush(sources, targets, targetMap, i + 1, acc)
            ELSE IF sourceEntry.value # targets[targetMap[sourceEntry.key]].value
                 THEN CompareLoop_NoMissingPush(sources, targets, targetMap, i + 1,
                                  [acc EXCEPT !.outdated =
                                      Append(@, [source |-> i, target |-> targetMap[sourceEntry.key]])])
                 ELSE CompareLoop_NoMissingPush(sources, targets, targetMap, i + 1, acc)

\* the loop of compareI18nFiles from source index i on; entries are held by
\* reference, so the lists hold indices into the two lists
RECURSIVE CompareLoop(_, _, _, _, _)
CompareLoop(sources, targets, targetMap, i, acc) ==
    IF i > Len(sources) THEN acc
    ELSE LET sourceEntry == sources[i]
         IN IF ~MapHas(targetMap, sourceEntry.key)
            THEN CompareLoop(sources, targets, targetMap, i + 1,
                             [acc EXCEPT !.missing = Append(@, i)])
            ELSE IF sourceEntry.value # targets[targetMap[sourceEntry.key]].value
                 THEN CompareLoop(sources, targets, targetMap, i + 1,
                                  [acc EXCEPT !.outdated =
                                      Append(@, [source |-> i, target |-> targetMap[sourceEntry.key]])])
                 ELSE CompareLoop(sources, targets, targetMap, i + 1, acc)

\* Parser.compareI18nFiles(sources, targets)
compareI18nFiles(sources, targets) ==
    CompareLoop(sources, targets, KeyMap(targets), 1,
                [missing |-> <<>>, outdated |-> <<>>])

-----------------------------------------------------------------------------
(* Inputs of the catalog model experiments *)

\* entry keys and values of the lists handed to compareI18nFiles
CmpKeys == { <<"a">>, <<"b">> }
CmpValues == { <<"x">>, <<"y">> }
CmpEntries == { Entry(k, v) : k \in CmpKeys, v \in CmpValues }

SeqsUpTo(S, n) == UNION { [1..m -> S] : m \in 0..n }

NoResult == [ok |-> TRUE, data |-> <<>>]
NoDiff == [missing |-> <<>>, outdated |-> <<>>]

ParserIdle ==
    /\ ppc = "off" /\ catalog = <<>> /\ flat = <<>> /\ rebuilt = NoResult
    /\ cmpSource = <<>> /\ cmpTarget = <<>> /\ cmpResult = NoDiff

\* the values of a JSON document that are neither strings nor objects
NonStrings(k) ==
    { ValueNode(k, kind) : kind \in { "number", "boolean", "null" } }
    \cup { ArrayNode(k, elements) :
             elements \in SeqsUpTo({ LeafNode(<<>>, <<"x">>), ValueNode(<<>>, "number") },
                                   MaxArrayLen) }

\* JSON documents with one value that is not a string, at the top or nested,
\* alone or after a string leaf
JsonCatalogs ==
    UNION { { << nd >>, << LeafNode(<<"a">>, <<"x">>), nd >>, << ObjNode(<<"a">>, << nd >>) >> } :
              nd \in NonStrings(<<"b">>) }

ParserInit ==
    /\ flat = <<>> /\ rebuilt = NoResult /\ cmpResult = NoDiff
    /\ \/ /\ ppc = "roundtrip"
          /\ catalog \in Catalogs(MaxNodes)
          /\ cmpSource = <<>> /\ cmpTarget = <<>>
       \/ /\ ppc = "parse"
          /\ catalog \in JsonCatalogs
          /\ cmpSource = <<>> /\ cmpTarget = <<>>
       \/ /\ ppc = "diff"
          /\ catalog = <<>>
          /\ cmpSource \in SeqsUpTo(CmpEntries, MaxCmpSource)
          /\ cmpTarget \in SeqsUpTo(CmpEntries, MaxCmpTarget)

\* parseI18nFile: JSON.parse, then flattenI18nData(data)
Flatten ==
    /\ ppc = "roundtrip"
    /\ flat' = flattenI18nData(catalog, <<>>)
    /\ ppc' = "flattened"
    /\ UNCHANGED <<catalog, rebuilt, cmpSource, cmpTarget, cmpResult>>
    /\ UNCHANGED <<runVars, vdbVars, glossaryVars, entryVars, responseVars>>

\* parseI18nFile on a document with a value that is not a string
Parse ==
    /\ ppc = "parse"
    /\ LET r == parseI18nFile(catalog)
       IN /\ flat' = r.entries
          /\ ppc' = IF r.ok THEN "parsed" ELSE "parseError"
    /\ UNCHANGED <<catalog, rebuilt, cmpSource, cmpTarget, cmpResult>>
    /\ UNCHANGED <<runVars, vdbVars, glossaryVars, entryVars, responseVars>>

\* buildI18nData on the flattened entries
Build ==
    /\ ppc = "flattened"
    /\ rebuilt' = buildI18nData(flat)
    /\ ppc' = "rebuilt"
    /\ UNCHANGED <<catalog, flat, cmpSource, cmpTarget, cmpResult>>
    /\ UNCHANGED <<runVars, vdbVars, glossaryVars, entryVars, responseVars>>

\* compareI18nFiles on the two lists
Compare ==
    /\ ppc = "diff"
    /\ cmpResult' = compareI18nFiles(cmpSource, cmpTarget)
    /\ ppc' = "compared"
    /\ UNCHANGED <<catalog, flat, rebuilt, cmpSource, cmpTarget>>
    /\ UNCHANGED <<runVars, vdbVars, glossaryVars, entryVars, responseVars>>

ParserNext == Flatten \/ Parse \/ Build \/ Compare

-----------------------------------------------------------------------------
(* Claims about the catalog model *)

\* a catalog the dot-path encoding can represent: every key is non-empty and
\* has no ".", and no nested object is empty
RECURSIVE DotFree(_)
DotFree(obj) ==
    \A i \in 1..Len(obj) :
        /\ obj[i].k # <<>>
        /\ ~HasDot(obj[i].k)
        /\ obj[i].leaf \/ (obj[i].c # <<>> /\ DotFree(obj[i].c))

HasNested(obj) == \E i \in 1..Len(obj) : ~obj[i].leaf /\ obj[i].c # <<>>

\* C6 (as stated): for ANY nested string-leaf catalog C, empty nested objects and
\* arbitrary string keys included, buildI18nData(flattenI18nData(C)) is
\* structurally equal to C.
C6_RoundTripAnyCatalog ==
    ppc = "rebuilt" => (rebuilt.ok /\ DeepEqual(rebuilt.data, catalog))

\* C6 (amended): for every catalog whose keys are non-empty and contain no "."
\* and that holds no empty nested object, buildI18nData(flattenI18nData(C)) is
\* structurally equal to C.
C6_RoundTripDotFree ==
    (ppc = "rebuilt" /\ DotFree(catalog)) => (rebuilt.ok /\ DeepEqual(rebuilt.data, catalog))

\* C6 witness: a dot-free catalog with a non-empty nested object went through
\* flatten and build
C6_Witness ==
    /\ ppc = "rebuilt" /\ DotFree(catalog) /\ HasNested(catalog)
    /\ Len(flat) >= 2

\* the document holds a number, a boolean, null or an array somewhere
RECURSIVE HasNonStringLeaf(_)
HasNonStringLeaf(obj) ==
    \E i \in 1..Len(obj) :
        obj[i].kind \in { "number", "boolean", "null", "array" } \/ HasNonStringLeaf(obj[i].c)

\* C20 (as stated): parsing a catalog that holds a non-string leaf (number,
\* boolean, null or array, anywhere in the tree) fails with a parse error and
\* returns no entry list.
C20_NonStringLeafFails ==
    (ppc \in { "parsed", "parseError" } /\ HasNonStringLeaf(catalog)) => ppc = "parseError"

CountIn(seq, Test(_)) == Cardinality({ n \in 1..Len(seq) : Test(seq[n]) })

InMissing(i) == CountIn(cmpResult.missing, LAMBDA m : m = i)
InOutdated(i) == CountIn(cmpResult.outdated, LAMBDA o : o.source = i)
KeyInTarget(i) == \E j \in 1..Len(cmpTarget) : cmpTarget[j].key = cmpSource[i].key

\* C7: every source entry handed to compareI18nFiles falls in exactly one class:
\* it is in `missing` (once), or it is the source of exactly one `outdated` pair,
\* or its key is in the target and it is in neither list.
C7_DiffComplete ==
    ppc = "compared" =>
        \A i \in 1..Len(cmpSource) :
            LET isMissing == InMissing(i) = 1 /\ InOutdated(i) = 0
                isOutdated == InOutdated(i) = 1 /\ InMissing(i) = 0
                isUnchanged == KeyInTarget(i) /\ InMissing(i) = 0 /\ InOutdated(i) = 0
            IN Cardinality({ c \in { "m", "o", "u" } :
                              \/ c = "m" /\ isMissing
                              \/ c = "o" /\ isOutdated
                              \/ c = "u" /\ isUnchanged }) = 1

\* C7 witness: one comparison produced a missing, an outdated and an unchanged entry
C7_Witness ==
    /\ ppc = "compared"
    /\ Len(cmpResult.missing) >= 1
    /\ Len(cmpResult.outdated) >= 1
    /\ Len(cmpResult.missing) + Len(cmpResult.outdated) < Len(cmpSource)

\* the target entry compared with source entry i: the last one with its key
LastTarget(i) ==
    CHOOSE j \in 1..Len(cmpTarget) :
        /\ cmpTarget[j].key = cmpSource[i].key
        /\ \A h \in (j + 1)..Len(cmpTarget) : cmpTarget[h].key # cmpSource[i].key

\* a list of source indices is exactly the set S in source order
InSourceOrder(seq, S) ==
    /\ Len(seq) = Cardinality(S)
    /\ { seq[n] : n \in 1..Len(seq) } = S
    /\ \A m, n \in 1..Len(seq) : m < n => seq[m] < seq[n]

\* C24: `missing` is exactly the source entries whose key is absent from the
\* target, in source order; a source entry whose key is in the target is in
\* `outdated`, paired with its target entry, exactly when the two value
\* strings differ, and is in neither list when they are equal
C24_CompareShape ==
    ppc = "compared" =>
        LET absent == { i \in 1..Len(cmpSource) : ~KeyInTarget(i) }
            differs == { i \in 1..Len(cmpSource) :
                           KeyInTarget(i) /\ cmpSource[i].value # cmpTarget[LastTarget(i)].value }
            outdated == cmpResult.outdated
        IN /\ InSourceOrder(cmpResult.missing, absent)
           /\ InSourceOrder([n \in 1..Len(outdated) |-> outdated[n].source], differs)
           /\ \A n \in 1..Len(outdated) : outdated[n].target = LastTarget(outdated[n].source)
           /\ \A i \in 1..Len(cmpSource) :
                 (KeyInTarget(i) /\ cmpSource[i].value = cmpTarget[LastTarget(i)].value)
                     => (InMissing(i) = 0 /\ InOutdated(i) = 0)

\* C24 witness: a comparison with two entries of one class in source order,
\* and an entry with equal values left out of both lists
C24_Witness ==
    /\ ppc = "compared"
    /\ Len(cmpSource) = 3
    /\ Len(cmpResult.missing) + Len(cmpResult.outdated) = 2
    /\ \E i \in 1..Len(cmpSource) :
          KeyInTarget(i) /\ cmpSource[i].value = cmpTarget[LastTarget(i)].value

-----------------------------------------------------------------------------
(* Text of a run *)

\* keys of the catalogs of a run
RunKeys == { <<"a">>, <<"b">>, <<"c">>, <<"a", DOT, "b">> }

\* the source-language text of a key
SourceText(k) == <<"S">> \o k

\* generateTranslation: the text the generation backend returns for a source text
Translated(text) == <<"T">> \o text

\* reviewTranslation: the improved text the backend may return for a source text
Improved(text) == <<"R">> \o text

\* the values a target entry can hold: the untranslated source text and the
\* translation of the current source text
TargetValues(k) == { SourceText(k), Translated(SourceText(k)) }

\* key p names an object on the key path of k
IsPathPrefix(p, k) == Len(p) < Len(k) /\ SubSeq(k, 1, Len(p)) = p /\ k[Len(p) + 1] = DOT

\* the entry lists of at most n entries that flattening a catalog with dot-free
\* keys yields: keys pairwise different, no key on the path of another
UniqueKeyLists(E, n) ==
    { l \in SeqsUpTo(E, n) :
        \A i, j \in 1..Len(l) :
            i # j => (l[i].key # l[j].key /\ ~IsPathPrefix(l[i].key, l[j].key)) }

SourceLists == UniqueKeyLists({ Entry(k, SourceText(k)) : k \in RunKeys }, MaxSource)

TargetLists ==
    UniqueKeyLists(UNION { { Entry(k, v) : v \in TargetValues(k) } : k \in RunKeys }, MaxTarget)

\* translator.ts:179 `concurrency = 5`
DefaultConcurrency == 5

ConcurrencyValues == 1..MaxConcurrency \cup { DefaultConcurrency }

-----------------------------------------------------------------------------
(* Translator: batchTranslate / batchReview *)

Min(x, y) == IF x < y THEN x ELSE y
Max(x, y) == IF x > y THEN x ELSE y

\* Array.prototype.slice index normalisation
SliceBound(len, x) == IF x < 0 THEN Max(len + x, 0) ELSE Min(x, len)

\* entries.slice(i, i + concurrency + 1): one entry too many
BatchSlice_OneMore(len, i, c) ==
    { n \in 1..len : SliceBound(len, i) < n /\ n <= SliceBound(len, i + c + 1) }

\* entries.slice(i, i + concurrency), as the set of (1-based) indices it holds
BatchSlice(len, i, c) ==
    { n \in 1..len : SliceBound(len, i) < n /\ n <= SliceBound(len, i + c) }

\* Math.floor(a / b) for b # 0
FloorDiv(a, b) == IF b > 0 THEN a \div b ELSE (0 - a) \div (0 - b)

\* a JavaScript number: an integer n, or NaN
Num(n) == [nan |-> FALSE, n |-> n]
NaN == [nan |-> TRUE, n |-> 0]

\* the window index counted from 0
BatchNumber_ZeroBased(i, c) == IF c = 0 THEN NaN ELSE Num(FloorDiv(i, c))

\* batchNumber = Math.floor(i / concurrency) + 1; 0 / 0 is NaN
BatchNumber(i, c) == IF c = 0 THEN NaN ELSE Num(FloorDiv(i, c) + 1)

\* totalBatches = Math.ceil(total / concurrency), computed inside the loop,
\* where total > 0
TotalBatches(total, c) == IF c = 0 THEN "Infinity" ELSE 0 - FloorDiv(0 - total, c)

Settled(e) == e.st \in { "ok", "failed" }

InFlight == { n \in DOMAIN est : est[n].st \in { "finding", "generating", "storing" } }

\* Promise.race in place of Promise.all: the loop goes on at the first settlement
WindowAwaited_Race == window = {} \/ \E n \in window : Settled(est[n])

\* `await Promise.all(batchPromises)`: every promise of the batch has settled
WindowAwaited == \A n \in window : Settled(est[n])

Pending == [st |-> "pending", translated |-> <<>>, tries |-> 0]

MapSet(map, k, v) == [x \in DOMAIN map \cup { k } |-> IF x = k THEN v ELSE map[x]]

EmptyMap == [x \in {} |-> <<>>]

\* the first lines of batchTranslate / batchReview, up to the loop
BatchBegin(list) ==
    /\ work' = list
    /\ est' = [n \in 1..Len(list) |-> Pending]
    /\ results' = EmptyMap
    /\ completed' = 0
    /\ bi' = 0
    /\ batchNumber' = Num(0)
    /\ window' = {}
    /\ bpc' = "loop"
    /\ genCalls' = 0
    /\ termsSeen' = {}
    /\ genFailed' = {}
    /\ indexWrites' = {}

\* batchReview without the filter
EntriesToReview_Unfiltered(list, targets) == list

\* batchReview: sourceEntries.filter(entry => targetMap.has(entry.key))
EntriesToReview(list, targets) ==
    SelectSeq(list, LAMBDA e : MapHas(KeyMap(targets), e.key))

\* translateEntry / reviewEntry: glossaryTerms is the glossary's map for the
\* language when useGlossary && this.glossary, and stays undefined otherwise
GlossaryTermsGiven == IF useGlossary /\ glossary THEN "terms" ELSE "undefined"

\* the first await an entry of a new batch reaches
FirstCall == IF op \in { "translate", "batchTranslate" } /\ useVectorDB /\ client
             THEN "finding" ELSE "generating"

\* one turn of the for loop up to its await: slice the batch and start every
\* per-entry promise; each runs synchronously up to its first gateway call
WindowStart ==
    /\ bpc = "loop"
    /\ bi < Len(work)
    /\ batchNumber' = BatchNumber(bi, concurrency)
    /\ LET batch == BatchSlice(Len(work), bi, concurrency)
       IN /\ window' = batch
          /\ est' = [n \in DOMAIN est |->
                        IF n \in batch
                        THEN [st |-> FirstCall, translated |-> <<>>, tries |-> est[n].tries + 1]
                        ELSE est[n]]
          /\ genCalls' = genCalls + (IF FirstCall = "generating" THEN Cardinality(batch) ELSE 0)
          /\ termsSeen' = (IF FirstCall = "generating" /\ batch # {}
                            THEN termsSeen \cup { GlossaryTermsGiven } ELSE termsSeen)
    /\ bpc' = "awaiting"
    /\ UNCHANGED <<work, bi, results, completed, genFailed, indexWrites>>
    /\ UNCHANGED <<inputVars, dpc, client, glossary, handed, merged, written, destData>>
    /\ UNCHANGED <<parserVars, vdbVars, glossaryVars, entryVars, responseVars>>

\* findSimilarTranslations settles; a failure is caught and replaced by []
FindSimilarReturns(n) ==
    /\ bpc = "awaiting"
    /\ est[n].st = "finding"
    /\ est' = [est EXCEPT ![n].st = "generating"]
    /\ genCalls' = genCalls + 1
    /\ termsSeen' = termsSeen \cup { GlossaryTermsGiven }
    /\ UNCHANGED <<work, batchNumber, bpc, bi, window, results, completed, genFailed, indexWrites>>
    /\ UNCHANGED <<inputVars, dpc, client, glossary, handed, merged, written, destData>>
    /\ UNCHANGED <<parserVars, vdbVars, glossaryVars, entryVars, responseVars>>

\* results.set(entry.key, result); completed++
SettleOk(n, text) ==
    /\ est' = [est EXCEPT ![n].st = "ok", ![n].translated = text]
    /\ results' = MapSet(results, work[n].key,
                         [original |-> work[n].value, translated |-> text,
                          isNew |-> op \in { "translate", "batchTranslate" }])
    /\ completed' = completed + 1

\* the error leaves the per-entry promise: Promise.all rejects, the batch rejects
EntryError_Rethrown(n) ==
    /\ est' = [est EXCEPT ![n].st = "failed"]
    /\ bpc' = "rejected"

\* the catch block of the per-entry promise: log, resolve with success: false
EntryError(n) ==
    /\ est' = [est EXCEPT ![n].st = "failed"]
    /\ bpc' = bpc

\* the text the generation gateway returns for work entry n
GenerationOutputs(n) ==
    IF op \in { "translate", "batchTranslate" }
    THEN { Translated(work[n].value) }
    ELSE { targetEntries[KeyMap(targetEntries)[work[n].key]].value, Improved(work[n].value) }

\* does the entry go on to addTranslation after its generation call?
StoresAfter(n, text) ==
    IF op \in { "translate", "batchTranslate" }
    THEN useVectorDB /\ client
    ELSE text # targetEntries[KeyMap(targetEntries)[work[n].key]].value /\ client

\* generateTranslation / reviewTranslation resolves
GenerateReturns(n) ==
    /\ bpc = "awaiting"
    /\ est[n].st = "generating"
    /\ \E text \in GenerationOutputs(n) :
          IF StoresAfter(n, text)
          THEN /\ est' = [est EXCEPT ![n].st = "storing", ![n].translated = text]
               /\ UNCHANGED <<results, completed>>
          ELSE SettleOk(n, text)
    /\ UNCHANGED <<work, batchNumber, bpc, bi, window, genCalls, termsSeen, genFailed, indexWrites>>
    /\ UNCHANGED <<inputVars, dpc, client, glossary, handed, merged, written, destData>>
    /\ UNCHANGED <<parserVars, vdbVars, glossaryVars, entryVars, responseVars>>

\* generateTranslation / reviewTranslation rejects: translateEntry / reviewEntry
\* rejects and the batch's per-entry catch takes it
GenerateFails(n) ==
    /\ bpc = "awaiting"
    /\ est[n].st = "generating"
    /\ EntryError(n)
    /\ genFailed' = genFailed \cup { n }
    /\ UNCHANGED <<work, batchNumber, bi, window, results, completed, genCalls, termsSeen, indexWrites>>
    /\ UNCHANGED <<inputVars, dpc, client, glossary, handed, merged, written, destData>>
    /\ UNCHANGED <<parserVars, vdbVars, glossaryVars, entryVars, responseVars>>

\* addTranslation settles; a failure is caught and logged
AddTranslationReturns(n) ==
    /\ bpc = "awaiting"
    /\ est[n].st = "storing"
    /\ \E stored \in BOOLEAN :
          indexWrites' = IF stored
                         THEN indexWrites \cup { [sourceText |-> work[n].value,
                                                  translation |-> est[n].translated] }
                         ELSE indexWrites
    /\ SettleOk(n, est[n].translated)
    /\ UNCHANGED <<work, batchNumber, bpc, bi, window, genCalls, termsSeen, genFailed>>
    /\ UNCHANGED <<inputVars, dpc, client, glossary, handed, merged, written, destData>>
    /\ UNCHANGED <<parserVars, vdbVars, glossaryVars, entryVars, responseVars>>

\* the loop variable moved one entry past the end of the slice
NextIndex_Skip(i, c) == i + c + 1

\* the update of the for loop: i += concurrency
NextIndex(i, c) == i + c

\* Promise.all of the batch resolves: i += concurrency.  A negative concurrency
\* takes i down without end; every slice taken at an i < 0 is then empty, so i
\* is followed down to -MaxRewind and held there
WindowEnd ==
    /\ bpc = "awaiting"
    /\ WindowAwaited
    /\ bi' = Max(NextIndex(bi, concurrency), 0 - MaxRewind)
    /\ bpc' = "loop"
    /\ UNCHANGED <<work, batchNumber, window, est, results, completed, genCalls, termsSeen, genFailed, indexWrites>>
    /\ UNCHANGED <<inputVars, dpc, client, glossary, handed, merged, written, destData>>
    /\ UNCHANGED <<parserVars, vdbVars, glossaryVars, entryVars, responseVars>>

\* the loop condition fails: return results
BatchReturn ==
    /\ bpc = "loop"
    /\ ~(bi < Len(work))
    /\ bpc' = "returned"
    /\ UNCHANGED <<work, batchNumber, bi, window, est, results, completed, genCalls, termsSeen, genFailed, indexWrites>>
    /\ UNCHANGED <<inputVars, dpc, client, glossary, handed, merged, written, destData>>
    /\ UNCHANGED <<parserVars, vdbVars, glossaryVars, entryVars, responseVars>>

-----------------------------------------------------------------------------
(* Drivers: commands/translate.ts and commands/review.ts *)

\* translate: sourceEntries.filter(entry => targetMap.has(entry.key))
EntriesToTranslate_Present(sources, targets) ==
    SelectSeq(sources, LAMBDA e : MapHas(KeyMap(targets), e.key))

\* translate: sourceEntries.filter(entry => !targetMap.has(entry.key))
EntriesToTranslate(sources, targets) ==
    SelectSeq(sources, LAMBDA e : ~MapHas(KeyMap(targets), e.key))

\* outdated.map(item => item.source)
OutdatedSources(sources, targets) ==
    LET outdated == compareI18nFiles(sources, targets).outdated
    IN [n \in 1..Len(outdated) |-> sources[outdated[n].source]]

\* review: the entries to review, by the `all` flag
ReviewSelection(sources, targets, all) ==
    IF all
    THEN SelectSeq(sources, LAMBDA s : \E j \in 1..Len(targets) : targets[j].key = s.key)
    ELSE OutdatedSources(sources, targets)

\* createVectorDBClient + initialize: without useVectorDB no client; with it the
\* client is there unless initialisation failed
ClientChoices == IF useVectorDB THEN BOOLEAN ELSE { FALSE }

\* Glossary.load: an existing file is read and parsed; a missing one is
\* replaced by an empty glossary that is saved at once; a parse error or a
\* failed save is rethrown
load(file) == file \in { "valid", "absent" }

\* the glossary block without its try/catch: a failed load leaves the driver
LoadGlossary_Uncaught ==
    IF ~useGlossary THEN "none" ELSE IF load(glossaryFile) THEN "loaded" ELSE "throws"

\* the drivers' glossary block: with useGlossary the glossary is loaded, and
\* an error of the load is caught: `glossary = undefined`
LoadGlossary == IF useGlossary /\ load(glossaryFile) THEN "loaded" ELSE "none"

\* translate loads its catalogs: parseI18nFile(source) must succeed; the target
\* is parsed when the file exists, and an error of that parse is caught ("Will
\* create a new target file"), leaving targetEntries = []
TranslateLoads == sourceFile = "valid"

\* review loads its catalogs: parseI18nFile(source), then the target file must
\* exist and parse
ReviewLoads == sourceFile = "valid" /\ targetFile = "valid"

\* translate, from loading the catalogs to the call of batchTranslate
StartTranslate ==
    /\ dpc = "start" /\ op = "translate"
    /\ IF ~TranslateLoads
       THEN /\ dpc' = "exit1"
            /\ UNCHANGED <<handed, client, glossary, batchVars>>
       ELSE LET entriesToTranslate == EntriesToTranslate(sourceEntries, targetEntries)
            IN /\ handed' = entriesToTranslate
               /\ IF Len(entriesToTranslate) = 0
                  THEN /\ dpc' = "done"
                       /\ UNCHANGED <<client, glossary, batchVars>>
                  ELSE IF LoadGlossary = "throws"
                  THEN /\ dpc' = "exit1"
                       /\ UNCHANGED <<client, glossary, batchVars>>
                  ELSE /\ dpc' = "batch"
                       /\ client' \in ClientChoices
                       /\ glossary' = (LoadGlossary = "loaded")
                       /\ BatchBegin(entriesToTranslate)
    /\ UNCHANGED <<inputVars, merged, written, destData>>
    /\ UNCHANGED <<parserVars, vdbVars, glossaryVars, entryVars, responseVars>>

\* review, from loading the catalogs to the call of batchReview
StartReview ==
    /\ dpc = "start" /\ op = "review"
    /\ IF ~ReviewLoads
       THEN /\ dpc' = "exit1"
            /\ UNCHANGED <<handed, client, glossary, batchVars>>
       ELSE LET entriesToReview == ReviewSelection(sourceEntries, targetEntries, allFlag)
            IN /\ handed' = entriesToReview
               /\ IF Len(entriesToReview) = 0
                  THEN /\ dpc' = "done"
                       /\ UNCHANGED <<client, glossary, batchVars>>
                  ELSE IF LoadGlossary = "throws"
                  THEN /\ dpc' = "exit1"
                       /\ UNCHANGED <<client, glossary, batchVars>>
                  ELSE /\ dpc' = "batch"
                       /\ client' \in ClientChoices
                       /\ glossary' = (LoadGlossary = "loaded")
                       /\ BatchBegin(EntriesToReview(entriesToReview, targetEntries))
    /\ UNCHANGED <<inputVars, merged, written, destData>>
    /\ UNCHANGED <<parserVars, vdbVars, glossaryVars, entryVars, responseVars>>

\* a caller other than the drivers calls batchTranslate / batchReview on a
\* Translator built with or without a vector DB client, and without a glossary
StartDirect ==
    /\ dpc = "start" /\ op \in { "batchTranslate", "batchReview" }
    /\ handed' = sourceEntries
    /\ dpc' = "batch"
    /\ client' \in BOOLEAN
    /\ glossary' = FALSE
    /\ BatchBegin(IF op = "batchTranslate" THEN sourceEntries
                  ELSE EntriesToReview(sourceEntries, targetEntries))
    /\ UNCHANGED <<inputVars, merged, written, destData>>
    /\ UNCHANGED <<parserVars, vdbVars, glossaryVars, entryVars, responseVars>>

\* the entries translate appends for the source entries the target lacks
RECURSIVE NewEntries(_, _, _)
NewEntries(sources, targetMap, res) ==
    IF sources = <<>> THEN <<>>
    ELSE (IF ~MapHas(targetMap, Head(sources).key) /\ MapHas(res, Head(sources).key)
          THEN << Entry(Head(sources).key, res[Head(sources).key].translated) >>
          ELSE <<>>)
         \o NewEntries(Tail(sources), targetMap, res)

\* translate: allEntries = [...targetEntries] plus one entry per translated key
MergeTranslations(sources, targets, res) ==
    targets \o NewEntries(sources, KeyMap(targets), res)

\* the list built from the reviewed entries alone
MergeReviews_ReviewedOnly(targets, res) ==
    LET kept == SelectSeq(targets, LAMBDA t : MapHas(res, t.key))
    IN [n \in 1..Len(kept) |-> [kept[n] EXCEPT !.value = res[kept[n].key].translated]]

\* review: updatedEntries, a reviewed entry's value replaced in place
MergeReviews(targets, res) ==
    [n \in 1..Len(targets) |->
        IF MapHas(res, targets[n].key)
        THEN [targets[n] EXCEPT !.value = res[targets[n].key].translated]
        ELSE targets[n]]

\* the batch call without its await: the driver goes on while windows run
BatchSettled_NotAwaited == bpc # "idle"

\* `await translator.batchTranslate(...)` / `await translator.batchReview(...)`:
\* the driver resumes when the promise of the batch method has settled
BatchSettled == bpc \in { "returned", "rejected" }

\* buildI18nData + saveI18nFile; an error (a rejected batch, a TypeError in
\* buildI18nData) reaches the driver's catch: process.exit(1)
BuildAndSave(entries) ==
    LET built == buildI18nData(entries)
    IN /\ merged' = (IF bpc # "rejected" THEN entries ELSE merged)
       /\ IF bpc # "rejected" /\ built.ok
          THEN /\ destData' = built.data
               /\ written' = written + 1
               /\ dpc' = "done"
          ELSE /\ dpc' = "exit1"
               /\ UNCHANGED <<written, destData>>

\* translate, from the return of batchTranslate to the end
FinishTranslate ==
    /\ dpc = "batch" /\ op = "translate"
    /\ BatchSettled
    /\ BuildAndSave(MergeTranslations(sourceEntries, targetEntries, results))
    /\ UNCHANGED <<inputVars, client, glossary, handed, batchVars>>
    /\ UNCHANGED <<parserVars, vdbVars, glossaryVars, entryVars, responseVars>>

\* review, from the return of batchReview to the end
FinishReview ==
    /\ dpc = "batch" /\ op = "review"
    /\ BatchSettled
    /\ BuildAndSave(MergeReviews(targetEntries, results))
    /\ UNCHANGED <<inputVars, client, glossary, handed, batchVars>>
    /\ UNCHANGED <<parserVars, vdbVars, glossaryVars, entryVars, responseVars>>

\* every entry handed to the batch method has been taken into a window and
\* its promise has settled
AllWindowsCompleted ==
    /\ ~(bi < Len(work))
    /\ \A n \in 1..Len(work) : Settled(est[n])

\* C22: in a translate or review run the destination catalog is written at
\* most once, the write happens only after every batch window has completed,
\* and no write occurs before or during the batch phase
C22_SingleWriteAtEnd ==
    op \in { "translate", "review" } =>
        /\ written <= 1
        /\ dpc \in { "start", "batch" } => written = 0 /\ destData = <<>>
        /\ written = 1 => dpc = "done" /\ bpc = "returned" /\ AllWindowsCompleted

C22_Witness ==
    /\ op \in { "translate", "review" }
    /\ written = 1
    /\ Len(work) > concurrency
    /\ completed >= 1

\* entries whose per-entry promise resolved with success: true
Succeeded == { n \in DOMAIN est : est[n].st = "ok" }

\* the counters of a batch in one state: `completed` counts the successes and
\* stays within total; the reported window index is within 1..totalBatches;
\* at the return `completed` is the size of the result map and the last window
\* reported was the last of the list
C27_Counters ==
    bpc # "idle" =>
        /\ completed = Cardinality(Succeeded)
        /\ completed <= Len(work)
        /\ ~batchNumber.nan
        /\ bpc = "awaiting" =>
              (1 <= batchNumber.n /\ batchNumber.n <= TotalBatches(Len(work), concurrency))
        /\ bpc = "returned" =>
              /\ completed = Cardinality(DOMAIN results)
              /\ Len(work) > 0 => batchNumber.n = TotalBatches(Len(work), concurrency)

\* the counters over one step of a batch: `completed` grows by one exactly
\* when an entry succeeds and stays when one fails; the window index reported
\* next is the successor of the one reported before
C27_Step ==
    bpc # "idle" =>
        /\ completed' = completed + Cardinality({ n \in DOMAIN est :
                                                   est'[n].st = "ok" /\ est[n].st # "ok" })
        /\ (\E n \in DOMAIN est : est'[n].st = "failed" /\ est[n].st # "failed")
              => completed' = completed
        /\ batchNumber' # batchNumber => batchNumber'.n = batchNumber.n + 1

C29_ExactlyOneAttempt ==
    (op \in { "translate", "batchTranslate" } /\ concurrency >= 1 /\ bpc # "idle") =>
        /\ \A n \in DOMAIN est : est[n].tries <= 1
        /\ \A n \in DOMAIN est : est[n].st # "pending" => est[n].tries = 1
        /\ bpc = "returned" =>
              /\ \A n \in DOMAIN est : est[n].tries = 1
              /\ DOMAIN est = 1..Len(handed)
              /\ genCalls = Len(handed)

\* C29 witness: batchTranslate returned from three entries in two windows,
\* one of them failed
C29_Witness ==
    /\ op = "batchTranslate" /\ concurrency = 2 /\ bpc = "returned"
    /\ Len(handed) = 3
    /\ genFailed # {}
    /\ genCalls = 3

\* C28 (as stated): batchTranslate and batchReview return a result map for
\* every finite entry list and every integer concurrency, 0 and negative
\* values included, when every per-entry gateway call settles
C28_BatchTerminates == <>(bpc = "returned")

\* C25: the list the review driver hands to buildI18nData has the length, the
\* keys and the order of the loaded target entries; an entry whose key is in
\* the review result map carries the reviewed text, every other entry is
\* unchanged, and no entry is added or removed
C25_ReviewMergePreserves ==
    (op = "review" /\ bpc = "returned" /\ dpc \in { "done", "exit1" }) =>
        /\ Len(merged) = Len(targetEntries)
        /\ \A n \in 1..Len(targetEntries) :
              /\ merged[n].key = targetEntries[n].key
              /\ IF targetEntries[n].key \in DOMAIN results
                 THEN merged[n].value = results[targetEntries[n].key].translated
                 ELSE merged[n] = targetEntries[n]
        /\ \A n \in 1..Len(merged) :
              \E m \in 1..Len(targetEntries) : merged[n].key = targetEntries[m].key

\* C25 witness: a review run wrote a catalog with one entry reviewed and one
\* left as it was, the source holding a key the target lacks
C25_Witness ==
    /\ op = "review" /\ bpc = "returned" /\ dpc = "done" /\ written = 1
    /\ \E n \in 1..Len(targetEntries) : targetEntries[n].key \in DOMAIN results
                                          /\ merged[n].value # targetEntries[n].value
    /\ \E n \in 1..Len(targetEntries) : targetEntries[n].key \notin DOMAIN results
    /\ \E n \in 1..Len(sourceEntries) :
          \A m \in 1..Len(targetEntries) : sourceEntries[n].key # targetEntries[m].key

\* the driver asked for the glossary and Glossary.load threw
LoadFailed == useGlossary /\ ~load(glossaryFile)

-----------------------------------------------------------------------------
(* Claims about the batch methods *)

IsTranslateOp == op \in { "translate", "batchTranslate" }

WorkKeys(S) == { work[n].key : n \in S }

\* the result an entry of the batch must be mapped to
ExpectedResult(n, r) ==
    /\ r.original = work[n].value
    /\ r.isNew = IsTranslateOp
    /\ r.translated \in GenerationOutputs(n)

\* C1: batchTranslate / batchReview never rejects, and the map it returns holds
\* exactly the keys of the entries whose generation call did not fail (N - |F|
\* keys), each mapped to the result produced for that entry, and no key of F.
C1_BatchIsolation ==
    /\ bpc # "rejected"
    /\ bpc = "returned" =>
          /\ DOMAIN results = WorkKeys((1..Len(work)) \ genFailed)
          /\ DOMAIN results \cap WorkKeys(genFailed) = {}
          /\ Cardinality(DOMAIN results) = Len(work) - Cardinality(genFailed)
          /\ \A n \in (1..Len(work)) \ genFailed : ExpectedResult(n, results[work[n].key])

\* C1 witness: a batch of three entries returned after one generation failure
C1_Witness ==
    /\ bpc = "returned" /\ op = "batchTranslate"
    /\ Len(work) = 3 /\ Cardinality(genFailed) = 1
    /\ Cardinality(DOMAIN results) = 2

\* C2: at most `concurrency` per-entry operations are in flight at any time.
C2_ConcurrencyBound == Cardinality(InFlight) <= concurrency

\* C2 witness: the bound is reached while more entries wait for the next window
C2_Witness ==
    /\ concurrency = 2 /\ Len(work) = 3
    /\ Cardinality(InFlight) = 2
    /\ est[3].st = "pending"

\* the window an entry belongs to: slices of `concurrency` entries in input order
WindowOf(n) == (n - 1) \div concurrency

\* C3: the batches are contiguous slices of `concurrency` entries in input order,
\* and no entry of a later window is started before every entry of each earlier
\* window has settled (resolved, or failed and caught).
C3_WindowsSequential ==
    /\ bpc = "awaiting" =>
          /\ window = { n \in 1..Len(work) : bi < n /\ n <= bi + concurrency }
          /\ \A n \in window : WindowOf(n) * concurrency = bi
    /\ \A m, n \in DOMAIN est :
          (WindowOf(m) < WindowOf(n) /\ est[n].st # "pending") => Settled(est[m])

\* C3 witness: the second window runs after the first settled with one caught
\* failure and one success
C3_Witness ==
    /\ concurrency = 2 /\ Len(work) = 3
    /\ est[1].st = "ok" /\ est[2].st = "failed"
    /\ est[3].st = "generating"

-----------------------------------------------------------------------------
(* Claims about the drivers *)

\* the node of a document at a key path
RECURSIVE DocAt(_, _)
DocAt(data, parts) ==
    IF ~ObjHas(data, Head(parts)) THEN [found |-> FALSE, leaf |-> FALSE, v |-> <<>>]
    ELSE LET nd == ObjGet(data, Head(parts))
         IN IF Len(parts) = 1 THEN [found |-> TRUE, leaf |-> nd.leaf, v |-> nd.v]
            ELSE IF nd.leaf THEN [found |-> FALSE, leaf |-> FALSE, v |-> <<>>]
            ELSE DocAt(nd.c, Tail(parts))

\* the document holds the string `value` at the key path of `key`
DocHolds(data, key, value) ==
    LET at == DocAt(data, Split(key))
    IN at.found /\ at.leaf /\ at.v = value

DocKeys(data) == LET f == flattenI18nData(data, <<>>) IN { f[n].key : n \in 1..Len(f) }

KeysOf(list) == { list[n].key : n \in 1..Len(list) }

Ended == dpc \in { "done", "exit1" }

\* C4 (as stated): a translate run in which generation failed for some entries
\* does not exit with a failure status; it writes the destination catalog, which
\* holds the pre-existing target entries plus exactly the keys of the result map.
C4_PartialFailureSucceeds ==
    (op = "translate" /\ Ended /\ genFailed # {}) =>
        /\ dpc = "done"
        /\ written = 1
        /\ \A j \in 1..Len(targetEntries) :
              DocHolds(destData, targetEntries[j].key, targetEntries[j].value)
        /\ DocKeys(destData) = KeysOf(targetEntries) \cup DOMAIN results

\* C5 (as stated): in the document a translate run writes, every pre-existing
\* target entry is present at its key path with its value, and every translated
\* key appears exactly once with its translated value.
C5_MergePreservesExisting ==
    (op = "translate" /\ dpc = "done" /\ written = 1) =>
        /\ \A j \in 1..Len(targetEntries) :
              DocHolds(destData, targetEntries[j].key, targetEntries[j].value)
        /\ \A k \in DOMAIN results : DocHolds(destData, k, results[k].translated)
        /\ LET f == flattenI18nData(destData, <<>>)
           IN \A k \in DOMAIN results : Cardinality({ n \in 1..Len(f) : f[n].key = k }) = 1

\* C19 (as stated): when the source file or an existing target file holds
\* malformed JSON, the translate / review run makes no generation call, does
\* not write the destination file and ends with a failure exit status.
C19_MalformedCatalogFatal ==
    (op \in { "translate", "review" } /\ "malformed" \in { sourceFile, targetFile }) =>
        /\ genCalls = 0
        /\ written = 0
        /\ Ended => dpc = "exit1"

\* the source entries whose key a target entry carries, in source order
RECURSIVE Having(_, _)
Having(sources, targetKeys) ==
    IF sources = <<>> THEN <<>>
    ELSE (IF Head(sources).key \in targetKeys THEN << Head(sources) >> ELSE <<>>)
         \o Having(Tail(sources), targetKeys)

\* C17: batchReview runs over exactly the entries handed to it whose key is in
\* the target list, in order: an entry without a counterpart causes no review
\* call, no error and no key in the result map, and the total of the progress
\* display is the number of matched entries.
C17_ReviewOnlyMatched ==
    (op \in { "review", "batchReview" } /\ bpc # "idle") =>
        /\ work = Having(handed, KeysOf(targetEntries))
        /\ genCalls <= Len(work) /\ completed <= Len(work)
        /\ DOMAIN results \subseteq KeysOf(targetEntries)
        /\ bpc # "rejected"
        /\ bpc = "returned" =>
              /\ genCalls = Len(work)
              /\ DOMAIN results \cup WorkKeys(genFailed) = KeysOf(work)

\* C17 witness: batchReview returned after reviewing the two of three source
\* entries that have a counterpart
C17_Witness ==
    /\ op = "batchReview" /\ bpc = "returned"
    /\ Len(handed) = 3 /\ Len(work) = 2 /\ completed = 2

\* the source entries whose key no target entry carries, in source order
RECURSIVE Lacking(_, _)
Lacking(sources, targetKeys) ==
    IF sources = <<>> THEN <<>>
    ELSE (IF Head(sources).key \in targetKeys THEN <<>> ELSE << Head(sources) >>)
         \o Lacking(Tail(sources), targetKeys)

\* C8: translate hands batchTranslate exactly the source entries whose key is
\* absent from the target, in source order; when every source key is in the
\* target the selection is empty and the run makes no generation call.
C8_TranslateSelection ==
    (op = "translate" /\ dpc # "start") =>
        /\ handed = Lacking(sourceEntries, KeysOf(targetEntries))
        /\ work = handed
        /\ KeysOf(sourceEntries) \subseteq KeysOf(targetEntries) =>
              (handed = <<>> /\ dpc = "done" /\ bpc = "idle" /\ genCalls = 0)

\* C8 witness: of three source entries the two the target lacks are handed over
C8_Witness ==
    /\ op = "translate" /\ dpc = "batch"
    /\ Len(sourceEntries) = 3 /\ Len(handed) = 2
    /\ handed[1].key = sourceEntries[1].key /\ handed[2].key = sourceEntries[3].key

\* the target value of a key is the translation of the current source text
UpToDate(e) ==
    \E j \in 1..Len(targetEntries) :
        targetEntries[j].key = e.key /\ targetEntries[j].value = Translated(e.value)

\* C9 (as stated): with all = false the review driver does not select a key whose
\* target translation was made from the current source text; with all = true it
\* selects every source entry whose key is in the target.
C9_ReviewSelection ==
    (op = "review" /\ dpc # "start") =>
        IF allFlag
        THEN handed = SelectSeq(sourceEntries, LAMBDA e : e.key \in KeysOf(targetEntries))
        ELSE \A n \in 1..Len(handed) : ~UpToDate(handed[n])

-----------------------------------------------------------------------------
(* Vector DB clients *)

B64 == << "A","B","C","D","E","F","G","H","I","J","K","L","M","N","O","P",
          "Q","R","S","T","U","V","W","X","Y","Z","a","b","c","d","e","f",
          "g","h","i","j","k","l","m","n","o","p","q","r","s","t","u","v",
          "w","x","y","z","0","1","2","3","4","5","6","7","8","9","+","/" >>

\* UTF-8 byte of a character of the texts used here
ByteOf(ch) ==
    CASE ch = "H" -> 72 [] ch = "e" -> 101 [] ch = "i" -> 105
      [] ch = "l" -> 108 [] ch = "o" -> 111

B64At(n) == B64[n + 1]

\* Buffer.from(text).toString('base64')
RECURSIVE Base64(_)
Base64(text) ==
    IF Len(text) = 0 THEN <<>>
    ELSE IF Len(text) = 1
    THEN LET n == ByteOf(text[1]) * 65536
         IN << B64At(n \div 262144), B64At((n \div 4096) % 64), "=", "=" >>
    ELSE IF Len(text) = 2
    THEN LET n == ByteOf(text[1]) * 65536 + ByteOf(text[2]) * 256
         IN << B64At(n \div 262144), B64At((n \div 4096) % 64), B64At((n \div 64) % 64), "=" >>
    ELSE LET n == ByteOf(text[1]) * 65536 + ByteOf(text[2]) * 256 + ByteOf(text[3])
         IN << B64At(n \div 262144), B64At((n \div 4096) % 64),
               B64At((n \div 64) % 64), B64At(n % 64) >>
            \o Base64(SubSeq(text, 4, Len(text)))

\* `${language}_${Buffer.from(sourceText).toString('base64')}`
RecordId(sourceText, language) == language \o << "_" >> \o Base64(sourceText)

VdbSourceTexts == { <<"H", "i">>, <<"H", "e", "l", "l", "o">> }
VdbTranslations == { <<"t", "1">>, <<"t", "2">> }
VdbLanguages == { <<"j", "a">>, <<"f", "r">> }

Record(id, sourceText, translation, language) ==
    [id |-> id, sourceText |-> sourceText, translation |-> translation, language |-> language]

\* Weaviate data.creator() without an id: a new object under a fresh UUID
WeaviateCreate(records, sourceText, translation, language) ==
    { [ok |-> TRUE,
       store |-> Append(records, Record(<<"uuid">> \o [n \in 1..Len(records) |-> "'"],
                                        sourceText, translation, language))] }

StoreHasId(records, id) == \E n \in 1..Len(records) : records[n].id = id

\* an upsert that inserts without looking for the id
PineconeUpsert_Insert(records, sourceText, translation, language) ==
    { [ok |-> TRUE,
       store |-> Append(records, Record(RecordId(sourceText, language),
                                        sourceText, translation, language))] }

\* Pinecone index.upsert: the record with this id is replaced, or inserted
PineconeUpsert(records, sourceText, translation, language) ==
    LET id == RecordId(sourceText, language)
        rec == Record(id, sourceText, translation, language)
    IN { [ok |-> TRUE,
          store |-> IF StoreHasId(records, id)
                    THEN [n \in 1..Len(records) |-> IF records[n].id = id THEN rec ELSE records[n]]
                    ELSE Append(records, rec)] }

\* Chroma collection.add: an id the collection already holds is not replaced;
\* the call is ignored or rejected, by the version of the server
ChromaAdd(records, sourceText, translation, language) ==
    LET id == RecordId(sourceText, language)
    IN IF StoreHasId(records, id)
       THEN { [ok |-> TRUE, store |-> records], [ok |-> FALSE, store |-> records] }
       ELSE { [ok |-> TRUE,
               store |-> Append(records, Record(id, sourceText, translation, language))] }

\* what addTranslation of the client does to the backend
BackendAdd(records, sourceText, translation, language) ==
    CASE backend = "weaviate" -> WeaviateCreate(records, sourceText, translation, language)
      [] backend = "pinecone" -> PineconeUpsert(records, sourceText, translation, language)
      [] backend = "chroma" -> ChromaAdd(records, sourceText, translation, language)

VdbIdle ==
    /\ backend = "off" /\ vReady = FALSE /\ vInitOk = FALSE
    /\ store = <<>> /\ adds = <<>> /\ probes = <<>>

\* createVectorDBClient: one of the three clients, not yet initialized
VdbInit ==
    /\ backend \in { "weaviate", "pinecone", "chroma" } /\ vReady = FALSE /\ vInitOk = FALSE
    /\ store = <<>> /\ adds = <<>> /\ probes = <<>>

\* how an initialize() call ends: it resolves, it throws on a missing
\* environment variable, or its backend request fails
InitializeOutcomes == { "ok", "noEnv", "backendError" }

\* the field addTranslation / findSimilarTranslations test, after initialize():
\* Weaviate assigns this.client and Pinecone this.index before the request that
\* can fail; Chroma assigns this.collection from the awaited request
HandleAfterInitialize(b, outcome, ready) ==
    CASE outcome = "ok" -> TRUE
      [] outcome = "noEnv" -> ready
      [] outcome = "backendError" -> IF b \in { "weaviate", "pinecone" } THEN TRUE ELSE ready

\* initialize()
VdbInitialize ==
    /\ backend # "off"
    /\ ~vInitOk
    /\ \E outcome \in InitializeOutcomes :
          /\ vReady' = HandleAfterInitialize(backend, outcome, vReady)
          /\ vInitOk' = (outcome = "ok")
    /\ UNCHANGED <<backend, store, adds, probes>>
    /\ UNCHANGED <<parserVars, runVars, glossaryVars, entryVars, responseVars>>

\* the methods that call embed(): all but Weaviate's addTranslation
Embeds(b, method) == ~(b = "weaviate" /\ method = "addTranslation")

\* the records a similarity query returns: those of the language, at most `limit`
SimilarIn(records, language, limit) ==
    LET found == SelectSeq(records, LAMBDA r : r.language = language)
    IN SubSeq(found, 1, Min(limit, Len(found)))

\* addTranslation(sourceText, translation, language): rejects when the client is
\* not initialized, else embeds and writes to the backend
VdbAddTranslation ==
    /\ backend # "off"
    /\ Len(adds) < MaxAdds
    /\ \E sourceText \in VdbSourceTexts, translation \in VdbTranslations, language \in VdbLanguages :
          IF ~vReady
          THEN /\ adds' = Append(adds, [sourceText |-> sourceText, translation |-> translation,
                                        language |-> language, ok |-> FALSE, ready |-> FALSE,
                                        initialized |-> vInitOk, error |-> "not initialized",
                                        embedded |-> FALSE, called |-> FALSE])
               /\ UNCHANGED store
          ELSE \E out \in BackendAdd(store, sourceText, translation, language) :
                  /\ store' = out.store
                  /\ adds' = Append(adds, [sourceText |-> sourceText, translation |-> translation,
                                           language |-> language, ok |-> out.ok, ready |-> TRUE,
                                           initialized |-> vInitOk,
                                           error |-> IF out.ok THEN "none" ELSE "backend",
                                           embedded |-> Embeds(backend, "addTranslation"),
                                           called |-> TRUE])
    /\ UNCHANGED <<backend, vReady, vInitOk, probes>>
    /\ UNCHANGED <<parserVars, runVars, glossaryVars, entryVars, responseVars>>

\* findSimilarTranslations(sourceText, language): rejects when the client is
\* not initialized, else embeds the text and queries the backend
VdbFindSimilar ==
    /\ backend # "off"
    /\ Len(probes) < MaxProbes
    /\ \E language \in VdbLanguages :
          probes' = Append(probes,
              IF ~vReady
              THEN [method |-> "findSimilarTranslations", initialized |-> vInitOk,
                    error |-> "not initialized", embedded |-> FALSE, called |-> FALSE,
                    found |-> 0]
              ELSE [method |-> "findSimilarTranslations", initialized |-> vInitOk,
                    error |-> "none", embedded |-> Embeds(backend, "findSimilarTranslations"),
                    called |-> TRUE, found |-> Len(SimilarIn(store, language, 5))])
    /\ UNCHANGED <<backend, vReady, vInitOk, store, adds>>
    /\ UNCHANGED <<parserVars, runVars, glossaryVars, entryVars, responseVars>>

\* close(): an empty body in the three clients
VdbClose ==
    /\ backend # "off"
    /\ Len(probes) < MaxProbes
    /\ probes' = Append(probes, [method |-> "close", initialized |-> vInitOk, error |-> "none",
                                 embedded |-> FALSE, called |-> FALSE, found |-> 0])
    /\ UNCHANGED <<backend, vReady, vInitOk, store, adds>>
    /\ UNCHANGED <<parserVars, runVars, glossaryVars, entryVars, responseVars>>

VdbNext == VdbInitialize \/ VdbAddTranslation \/ VdbFindSimilar \/ VdbClose

\* the records the backend holds for a (language, sourceText) pair
Stored(sourceText, language) ==
    { n \in 1..Len(store) : store[n].sourceText = sourceText /\ store[n].language = language }

\* C10 (as stated): on every backend, after two addTranslation calls with the
\* same (sourceText, language) on an initialized client exactly one record is
\* stored for the pair, it carries the second call's translation, and the
\* second call was not rejected.
C10_AddTwiceOverwrites ==
    \A i, j \in 1..Len(adds) :
        ( /\ i < j /\ j = Len(adds)
          /\ adds[i].ready /\ adds[j].ready
          /\ adds[i].sourceText = adds[j].sourceText
          /\ adds[i].language = adds[j].language )
        => /\ adds[j].ok
           /\ Cardinality(Stored(adds[j].sourceText, adds[j].language)) = 1
           /\ \A n \in Stored(adds[j].sourceText, adds[j].language) :
                 store[n].translation = adds[j].translation

\* the calls of addTranslation and findSimilarTranslations made so far
UseCalls ==
    { adds[n] : n \in 1..Len(adds) }
        \cup { probes[n] : n \in { m \in 1..Len(probes) : probes[m].method # "close" } }

\* C26 (as stated): on the three clients an addTranslation or
\* findSimilarTranslations call made before an initialize() call has succeeded
\* is rejected with a 'not initialized' error and makes no embedding or backend
\* call; close() resolves without error in every client state, any number of
\* times.
C26_InitializeBeforeUse ==
    /\ \A c \in UseCalls :
          ~c.initialized => (c.error = "not initialized" /\ ~c.embedded /\ ~c.called)
    /\ \A n \in 1..Len(probes) : probes[n].method = "close" => probes[n].error = "none"

-----------------------------------------------------------------------------
(* Glossary (utils/glossary.ts) *)

\* String.prototype.toLowerCase on one character of the terms used here
LowerOf(ch) ==
    CASE ch = "W" -> "w" [] ch = "A" -> "a" [] OTHER -> ch

\* toLowerCase left out: the text is compared as it is
toLowerCase_Identity(text) == text

\* String.prototype.toLowerCase
toLowerCase(text) == [i \in 1..Len(text) |-> LowerOf(text[i])]

\* String.prototype.includes
Includes(text, part) ==
    \E i \in 0..(Len(text) - Len(part)) : SubSeq(text, i + 1, i + Len(part)) = part

\* an own property of an object literal: a key and its value
Prop(k, v) == [k |-> k, v |-> v]

\* an optional property (context, notes) that the object does not have
Undefined == [has |-> FALSE, v |-> <<>>]

Some(v) == [has |-> TRUE, v |-> v]

\* IGlossaryEntry; translations is the property list of a Record<string, string>
GlossaryEntry(term, translations, context, notes) ==
    [term |-> term, translations |-> translations, context |-> context, notes |-> notes]

\* the spread with the operands swapped: on a shared key the old value stays
RECURSIVE Spread_OldWins(_, _)
Spread_OldWins(old, new) ==
    IF new = <<>> THEN old
    ELSE Spread_OldWins(IF ObjHas(old, Head(new).k) THEN old ELSE Append(old, Head(new)),
                        Tail(new))

\* { ...old, ...new }: a key of `old` keeps its place and takes the value of
\* `new` when `new` has it; the other keys of `new` follow in their order
RECURSIVE Spread(_, _)
Spread(old, new) ==
    IF new = <<>> THEN old
    ELSE Spread(ObjSet(old, Head(new).k, Head(new)), Tail(new))

\* entries.findIndex(e => e.term.toLowerCase() === term.toLowerCase()); 0 for -1
FindIndex(list, term) ==
    IF \E i \in 1..Len(list) : toLowerCase(list[i].term) = toLowerCase(term)
    THEN CHOOSE i \in 1..Len(list) :
            /\ toLowerCase(list[i].term) = toLowerCase(term)
            /\ \A j \in 1..(i - 1) : toLowerCase(list[j].term) # toLowerCase(term)
    ELSE 0

\* { ...existing, ...entry, translations: { ...existing.translations, ...entry.translations } }
MergeEntry(existing, entry) ==
    GlossaryEntry(entry.term,
                  Spread(existing.translations, entry.translations),
                  IF entry.context.has THEN entry.context ELSE existing.context,
                  IF entry.notes.has THEN entry.notes ELSE existing.notes)

\* addEntry without the lookup: the entry is always pushed
addEntry_AlwaysPush(list, entry) == Append(list, entry)

\* Glossary.addEntry(entry): the entries after the call
addEntry(list, entry) ==
    LET existingIndex == FindIndex(list, entry.term)
    IN IF existingIndex >= 1
       THEN [list EXCEPT ![existingIndex] = MergeEntry(list[existingIndex], entry)]
       ELSE Append(list, entry)

\* Glossary.removeEntry(term): the entries after the call and the returned flag
removeEntry(list, term) ==
    LET kept == SelectSeq(list, LAMBDA e : toLowerCase(e.term) # toLowerCase(term))
    IN [entries |-> kept, removed |-> Len(kept) # Len(list)]

\* Glossary.searchEntries(searchTerm)
searchEntries(list, searchTerm) ==
    LET lowerSearchTerm == toLowerCase(searchTerm)
    IN SelectSeq(list, LAMBDA e :
           \/ Includes(toLowerCase(e.term), lowerSearchTerm)
           \/ \E i \in 1..Len(e.translations) :
                 Includes(toLowerCase(e.translations[i].v), lowerSearchTerm))

\* the property name that reaches the prototype accessor of a plain object
PROTO == << "__proto__" >>

\* `result[k] = v` on an object literal, v a string: an own property is set or
\* overwritten; for "__proto__" the inherited setter runs and drops a string
AssignProperty(obj, k, v) == IF k = PROTO THEN obj ELSE ObjSet(obj, k, Prop(k, v))

\* the truthiness of entry.translations[language]: a missing language
\* (undefined) and "" are falsy
HasTranslation(entry, language) ==
    ObjHas(entry.translations, language) /\ ObjGet(entry.translations, language).v # <<>>

\* the forEach of getEntriesForLanguage from the entries in `list` on
RECURSIVE CollectForLanguage(_, _, _)
CollectForLanguage(result, list, language) ==
    IF list = <<>> THEN result
    ELSE CollectForLanguage(
             IF HasTranslation(Head(list), language)
             THEN AssignProperty(result, Head(list).term,
                                 ObjGet(Head(list).translations, language).v)
             ELSE result,
             Tail(list), language)

\* Glossary.getEntriesForLanguage(language)
getEntriesForLanguage(list, language) == CollectForLanguage(<<>>, list, language)

(* Inputs of the glossary *)

\* the languages of the translations maps
Languages == SubSeq(<< <<"j", "a">>, <<"f", "r">>, <<"d", "e">>, <<"e", "s">> >>, 1, MaxLanguages)

LanguageSet == { Languages[i] : i \in 1..Len(Languages) }

\* the translations a caller gives for a language: two for the first language
TranslationsFor(language) ==
    IF language = Languages[1] THEN { <<"x">>, <<"y">> } ELSE { <<"z">> }

\* terms: two case variants of one term and another term
GlossaryTerms == { <<"W", "a">>, <<"w", "a">>, <<"k">> }

\* search terms: the terms, a part of a term in upper case, and a text no term holds
SearchTerms == GlossaryTerms \cup { <<"A">>, <<"q">> }

\* translations maps of the entries passed to addEntry: one language each, as
\* the glossary import builds them
GlossaryMaps ==
    UNION { { << Prop(l, t) >> : t \in TranslationsFor(l) } : l \in LanguageSet }

\* context and notes of the entries passed to addEntry
GlossaryExtras ==
    { << Undefined, Undefined >>, << Some(<<"c">>), Undefined >>, << Undefined, Some(<<"n">>) >> }

\* the entries passed to addEntry; the entries of the term "k" are plain
GlossaryInputs ==
    { GlossaryEntry(term, m, x[1], x[2]) :
        term \in { <<"W", "a">>, <<"w", "a">> }, m \in GlossaryMaps, x \in GlossaryExtras }
    \cup { GlossaryEntry(<<"k">>, m, Undefined, Undefined) : m \in GlossaryMaps }

\* the entries passed to addEntry in a glossary whose terms are any text: a
\* translation, possibly "", for the first language
TermInputs ==
    { GlossaryEntry(term, << Prop(Languages[1], t) >>, Undefined, Undefined) :
        term \in GlossaryTerms \cup { PROTO }, t \in { <<"x">>, <<>> } }

\* the entries a caller adds and the terms it removes, by the kind of glossary
AddInputs == IF gpc = "terms" THEN TermInputs ELSE GlossaryInputs
RemoveInputs == IF gpc = "terms" THEN GlossaryTerms \cup { PROTO } ELSE GlossaryTerms

NoEntry == GlossaryEntry(<<>>, <<>>, Undefined, Undefined)

NoReturn == [removed |-> FALSE, found |-> <<>>, language |-> <<>>, forLanguage |-> <<>>]

GlossaryIdle ==
    /\ gpc = "off" /\ glossaryEntries = <<>> /\ gOp = "none" /\ gArg = NoEntry /\ gRet = NoReturn

\* `private entries: IGlossaryEntry[] = []`
GlossaryInit ==
    /\ gpc = "ready" /\ glossaryEntries = <<>> /\ gOp = "none" /\ gArg = NoEntry /\ gRet = NoReturn

AddEntry ==
    /\ gpc \in { "ready", "terms" }
    /\ \E entry \in AddInputs :
          /\ glossaryEntries' = addEntry(glossaryEntries, entry)
          /\ gArg' = entry
    /\ gOp' = "addEntry"
    /\ gRet' = NoReturn
    /\ UNCHANGED gpc
    /\ UNCHANGED <<parserVars, runVars, vdbVars, entryVars, responseVars>>

RemoveEntry ==
    /\ gpc \in { "ready", "terms" }
    /\ \E term \in RemoveInputs :
          LET r == removeEntry(glossaryEntries, term)
          IN /\ glossaryEntries' = r.entries
             /\ gRet' = [NoReturn EXCEPT !.removed = r.removed]
             /\ gArg' = GlossaryEntry(term, <<>>, Undefined, Undefined)
    /\ gOp' = "removeEntry"
    /\ UNCHANGED gpc
    /\ UNCHANGED <<parserVars, runVars, vdbVars, entryVars, responseVars>>

SearchEntries ==
    /\ gpc \in { "ready", "terms" }
    /\ \E searchTerm \in SearchTerms :
          /\ gRet' = [NoReturn EXCEPT !.found = searchEntries(glossaryEntries, searchTerm)]
          /\ gArg' = GlossaryEntry(searchTerm, <<>>, Undefined, Undefined)
    /\ gOp' = "searchEntries"
    /\ UNCHANGED <<gpc, glossaryEntries>>
    /\ UNCHANGED <<parserVars, runVars, vdbVars, entryVars, responseVars>>

GetEntriesForLanguage ==
    /\ gpc \in { "ready", "terms" }
    /\ \E language \in LanguageSet :
          gRet' = [NoReturn EXCEPT !.language = language,
                                   !.forLanguage = getEntriesForLanguage(glossaryEntries, language)]
    /\ gArg' = NoEntry
    /\ gOp' = "getEntriesForLanguage"
    /\ UNCHANGED <<gpc, glossaryEntries>>
    /\ UNCHANGED <<parserVars, runVars, vdbVars, entryVars, responseVars>>

GlossaryNext == AddEntry \/ RemoveEntry \/ SearchEntries \/ GetEntriesForLanguage

\* `private entries: IGlossaryEntry[] = []`, for a glossary whose terms are any text
GlossaryTermsInit ==
    /\ gpc = "terms" /\ glossaryEntries = <<>> /\ gOp = "none" /\ gArg = NoEntry /\ gRet = NoReturn

-----------------------------------------------------------------------------
(* Claims about the glossary *)

\* the pairs of an upper-case letter and its lower-case letter
CasePairs == { {"W", "w"}, {"A", "a"} }

\* two texts that differ at most in the case of their letters
SameIgnoringCase(s, t) ==
    /\ Len(s) = Len(t)
    /\ \A i \in 1..Len(s) : s[i] = t[i] \/ {s[i], t[i]} \in CasePairs

\* the entries of a list whose term is `term`, ignoring case
Matching(list, term) == { i \in 1..Len(list) : SameIgnoringCase(list[i].term, term) }

\* C11: after addEntry(e), a second addEntry(e) leaves the entry list as it is
\* (same entries, same translations maps, context and notes), and the list holds
\* one entry for the term of e.
C11_UpsertIdempotent ==
    gOp = "addEntry" =>
        /\ addEntry(glossaryEntries, gArg) = glossaryEntries
        /\ Cardinality(Matching(glossaryEntries, gArg.term)) = 1

\* C11 witness: addEntry updated an entry that was there, next to another entry
C11_Witness ==
    /\ gOp = "addEntry" /\ Len(glossaryEntries) = 2
    /\ \E i \in Matching(glossaryEntries, gArg.term) :
          glossaryEntries[i].translations # gArg.translations

\* C12: addEntry with a case variant of a present term updates that entry and
\* adds none; searchEntries with a case variant of a term returns the entry;
\* removeEntry returns true exactly when a term matches ignoring case, removes
\* the matching entry and nothing else, and leaves the list as it is otherwise.
C12_CaseInsensitive ==
    [][ /\ (gOp' = "addEntry" /\ Matching(glossaryEntries, gArg'.term) # {}) =>
              /\ Len(glossaryEntries') = Len(glossaryEntries)
              /\ Matching(glossaryEntries', gArg'.term) = Matching(glossaryEntries, gArg'.term)
        /\ gOp' = "searchEntries" =>
              \A i \in Matching(glossaryEntries, gArg'.term) :
                  \E j \in 1..Len(gRet'.found) : gRet'.found[j] = glossaryEntries[i]
        /\ gOp' = "removeEntry" =>
              /\ gRet'.removed = (Matching(glossaryEntries, gArg'.term) # {})
              /\ glossaryEntries' =
                     SelectSeq(glossaryEntries, LAMBDA e : ~SameIgnoringCase(e.term, gArg'.term))
              /\ ~gRet'.removed => glossaryEntries' = glossaryEntries
      ]_vars

\* C12 witness: a search with the lower-case variant returned the entry whose
\* term is written with a capital
C12_Witness ==
    /\ gOp = "searchEntries" /\ gArg.term = <<"w", "a">>
    /\ \E j \in 1..Len(gRet.found) : gRet.found[j].term = <<"W", "a">>

\* the value a translations map holds for a language
ValueOf(map, language) == ObjGet(map, language).v

\* C13: addEntry with a term that is present (ignoring case) keeps the number of
\* entries; the entry's translations are the old map overridden by the new one,
\* its context and notes are the old ones unless the new entry has them; the
\* other entries stay.  addEntry with a term that is not present appends it.
C13_UpsertMerges ==
    [][ gOp' = "addEntry" =>
          LET e == gArg'
              M == Matching(glossaryEntries, e.term)
          IN IF M = {}
             THEN glossaryEntries' = Append(glossaryEntries, e)
             ELSE /\ Len(glossaryEntries') = Len(glossaryEntries)
                  /\ \A i \in 1..Len(glossaryEntries) :
                        LET old == glossaryEntries[i]
                            new == glossaryEntries'[i]
                        IN IF i \notin M THEN new = old
                           ELSE /\ ObjKeys(new.translations) =
                                       ObjKeys(old.translations) \cup ObjKeys(e.translations)
                                /\ \A l \in ObjKeys(new.translations) :
                                      ValueOf(new.translations, l) =
                                          IF ObjHas(e.translations, l)
                                          THEN ValueOf(e.translations, l)
                                          ELSE ValueOf(old.translations, l)
                                /\ new.context = (IF e.context.has THEN e.context ELSE old.context)
                                /\ new.notes = (IF e.notes.has THEN e.notes ELSE old.notes)
      ]_vars

\* C13 witness: an entry holds two languages, a context and notes after an
\* addEntry that gave one language and neither context nor notes
C13_Witness ==
    /\ gOp = "addEntry"
    /\ Len(gArg.translations) = 1 /\ ~gArg.context.has /\ ~gArg.notes.has
    /\ \E i \in Matching(glossaryEntries, gArg.term) :
          /\ Len(glossaryEntries[i].translations) = 2
          /\ glossaryEntries[i].context.has /\ glossaryEntries[i].notes.has

\* no two entries have terms that are equal ignoring case
TermsUnique ==
    \A i, j \in 1..Len(glossaryEntries) :
        i # j => ~SameIgnoringCase(glossaryEntries[i].term, glossaryEntries[j].term)

\* the map getEntriesForLanguage returned holds one mapping, term to
\* translation, for each entry in `among` that has a non-empty translation
\* for the language, and no mapping of an entry in `among` without one
MappedExactly(among) ==
    LET result == gRet.forLanguage
        Mappings(term) == { n \in 1..Len(result) : result[n].k = term }
    IN \A i \in among :
          IF HasTranslation(glossaryEntries[i], gRet.language)
          THEN /\ Cardinality(Mappings(glossaryEntries[i].term)) = 1
               /\ \A n \in Mappings(glossaryEntries[i].term) :
                     result[n].v = ValueOf(glossaryEntries[i].translations, gRet.language)
          ELSE Mappings(glossaryEntries[i].term) = {}

\* C30 (as stated): from an empty glossary, after any sequence of addEntry and
\* removeEntry calls no two entries have terms equal ignoring case, and
\* getEntriesForLanguage(lang) holds exactly one mapping for each entry with a
\* non-empty translation for lang and none for an entry without one.
C30_TermsUniqueAndMapped ==
    /\ TermsUnique
    /\ gOp = "getEntriesForLanguage" =>
          /\ MappedExactly(1..Len(glossaryEntries))
          /\ \A n \in 1..Len(gRet.forLanguage) :
                \E i \in 1..Len(glossaryEntries) :
                    gRet.forLanguage[n].k = glossaryEntries[i].term

-----------------------------------------------------------------------------
(* Translator: one translateEntry / reviewEntry call *)

\* `let similarTranslations;` before any assignment
NoSimilar == [def |-> FALSE, list |-> <<>>]

\* what findSimilarTranslations can resolve with: up to MaxSimilar examples
SimilarLists ==
    { [n \in 1..m |-> [source |-> <<"s">>, translation |-> <<"t">>]] : m \in 0..MaxSimilar }

\* the entries handed to translateEntry / reviewEntry
EntryKeys == { <<"a">>, <<"a", DOT, "b">> }

\* translateEntry without the try / catch around findSimilarTranslations
FindOutcome_Uncaught(ok, list) ==
    IF ok THEN [rejects |-> FALSE, similar |-> [def |-> TRUE, list |-> list]]
    ELSE [rejects |-> TRUE, similar |-> NoSimilar]

\* the try / catch around findSimilarTranslations: a failure gives []
FindOutcome(ok, list) ==
    IF ok THEN [rejects |-> FALSE, similar |-> [def |-> TRUE, list |-> list]]
    ELSE [rejects |-> FALSE, similar |-> [def |-> TRUE, list |-> <<>>]]

\* the guard with the option dropped: an injected client is always used
UsesIndex_ClientOnly == eClient

\* translateEntry: `useVectorDB && this.vectorDBClient`
UsesIndex == eUseVectorDB /\ eClient

\* the guard with the comparison dropped: every reviewed text is stored
ReviewStores_Always(improved) == eClient

\* reviewEntry: `improved !== targetEntry.value && this.vectorDBClient`
ReviewStores(improved) == improved # eTarget /\ eClient

\* the glossary terms handed to the generation gateway: undefined without a
\* glossary, {} when getEntriesForLanguage throws
GlossaryTermsArg ==
    IF eUseGlossary /\ eGlossary # "none"
    THEN (IF eGlossary = "throws" THEN "empty" ELSE "terms")
    ELSE "undefined"

\* the call of generateTranslation / reviewTranslation
GenerateCall(similar) ==
    [sourceText |-> eEntry.value, existing |-> eTarget, similar |-> similar,
     glossaryTerms |-> GlossaryTermsArg, out |-> "pending", ret |-> <<>>]

\* the call of addTranslation(sourceText, translation, language, context)
AddCall(translation) ==
    [sourceText |-> eEntry.value, translation |-> translation, out |-> "pending"]

\* the text the generation gateway can return
EntryOutputs ==
    IF eMethod = "translateEntry" THEN { Translated(eEntry.value) }
    ELSE { eTarget, Improved(eEntry.value) }

\* does the call go on to addTranslation with this text?
StoresEntry(text) == IF eMethod = "translateEntry" THEN UsesIndex ELSE ReviewStores(text)

\* the generation failure caught like an index failure
AfterGenerate_Swallowed(ok, text) ==
    IF StoresEntry(text) THEN "storing" ELSE "resolved"

\* where the call stands once the generation gateway has settled: its rejection
\* is not caught
AfterGenerate(ok, text) ==
    IF ~ok THEN "rejected"
    ELSE IF StoresEntry(text) THEN "storing" ELSE "resolved"

\* the returned ITranslationResult
EntryResult(text) ==
    [original |-> eEntry.value, translated |-> text, isNew |-> eMethod = "translateEntry"]

NoEntryResult == [original |-> <<>>, translated |-> <<>>, isNew |-> FALSE]

EntryIdle ==
    /\ epc = "off" /\ eMethod = "off" /\ eEntry = Entry(<<>>, <<>>) /\ eTarget = <<>>
    /\ eUseVectorDB = FALSE /\ eUseGlossary = FALSE /\ eClient = FALSE /\ eGlossary = "none"
    /\ similarTranslations = NoSimilar
    /\ findCalls = <<>> /\ generateCalls = <<>> /\ addCalls = <<>>
    /\ eResult = NoEntryResult

\* a Translator built with or without a client and a glossary, and one call
EntryInit ==
    /\ epc = "start"
    /\ eMethod \in { "translateEntry", "reviewEntry" }
    /\ eEntry \in { Entry(k, SourceText(k)) : k \in EntryKeys }
    /\ eTarget \in (IF eMethod = "reviewEntry" THEN TargetValues(eEntry.key) ELSE { <<>> })
    /\ eUseVectorDB \in BOOLEAN /\ eUseGlossary \in BOOLEAN
    /\ eClient \in BOOLEAN /\ eGlossary \in { "none", "terms", "throws" }
    /\ similarTranslations = NoSimilar
    /\ findCalls = <<>> /\ generateCalls = <<>> /\ addCalls = <<>>
    /\ eResult = NoEntryResult

\* the call up to its first await: findSimilarTranslations, or the generation
\* gateway when the index is not used
EntryBegin ==
    /\ epc = "start"
    /\ IF eMethod = "translateEntry" /\ UsesIndex
       THEN /\ epc' = "finding"
            /\ findCalls' = << [sourceText |-> eEntry.value, out |-> "pending"] >>
            /\ UNCHANGED generateCalls
       ELSE /\ epc' = "generating"
            /\ generateCalls' = << GenerateCall(similarTranslations) >>
            /\ UNCHANGED findCalls
    /\ UNCHANGED <<eMethod, eEntry, eTarget, eUseVectorDB, eUseGlossary, eClient, eGlossary,
                   similarTranslations, addCalls, eResult>>
    /\ UNCHANGED <<parserVars, runVars, vdbVars, glossaryVars, responseVars>>

\* findSimilarTranslations settles; the call goes on to the generation gateway
EntryFindSettles ==
    /\ epc = "finding"
    /\ \E ok \in BOOLEAN, list \in SimilarLists :
          LET r == FindOutcome(ok, list)
          IN /\ findCalls' = [findCalls EXCEPT ![1].out = IF ok THEN "ok" ELSE "failed"]
             /\ similarTranslations' = r.similar
             /\ IF r.rejects
                THEN epc' = "rejected" /\ UNCHANGED generateCalls
                ELSE epc' = "generating" /\ generateCalls' = << GenerateCall(r.similar) >>
    /\ UNCHANGED <<eMethod, eEntry, eTarget, eUseVectorDB, eUseGlossary, eClient, eGlossary,
                   addCalls, eResult>>
    /\ UNCHANGED <<parserVars, runVars, vdbVars, glossaryVars, responseVars>>

\* the generation gateway has settled with `ok`, returning `text` when ok
GenerateSettles(ok, text) ==
    /\ epc = "generating"
    /\ generateCalls' = [generateCalls EXCEPT ![1].out = IF ok THEN "ok" ELSE "failed",
                                              ![1].ret = text]
    /\ epc' = AfterGenerate(ok, text)
    /\ addCalls' = IF epc' = "storing" THEN << AddCall(text) >> ELSE addCalls
    /\ eResult' = IF epc' = "resolved" THEN EntryResult(text) ELSE eResult
    /\ UNCHANGED <<eMethod, eEntry, eTarget, eUseVectorDB, eUseGlossary, eClient, eGlossary,
                   similarTranslations, findCalls>>
    /\ UNCHANGED <<parserVars, runVars, vdbVars, glossaryVars, responseVars>>

\* generateTranslation / reviewTranslation resolves
EntryGenerateReturns == \E text \in EntryOutputs : GenerateSettles(TRUE, text)

\* generateTranslation / reviewTranslation rejects
EntryGenerateFails == GenerateSettles(FALSE, <<>>)

\* addTranslation settles; a failure is caught and logged
EntryAddSettles ==
    /\ epc = "storing"
    /\ \E ok \in BOOLEAN :
          addCalls' = [addCalls EXCEPT ![1].out = IF ok THEN "ok" ELSE "failed"]
    /\ epc' = "resolved"
    /\ eResult' = EntryResult(addCalls[1].translation)
    /\ UNCHANGED <<eMethod, eEntry, eTarget, eUseVectorDB, eUseGlossary, eClient, eGlossary,
                   similarTranslations, findCalls, generateCalls>>
    /\ UNCHANGED <<parserVars, runVars, vdbVars, glossaryVars, responseVars>>

EntryNext ==
    \/ EntryBegin
    \/ EntryFindSettles
    \/ EntryGenerateReturns
    \/ EntryGenerateFails
    \/ EntryAddSettles

-----------------------------------------------------------------------------
(* Claims about translateEntry / reviewEntry *)

FindFailed == findCalls # <<>> /\ findCalls[1].out = "failed"

GenerateOut == IF generateCalls = <<>> THEN "none" ELSE generateCalls[1].out

AddOut == IF addCalls = <<>> THEN "none" ELSE addCalls[1].out

\* the call resolved with the text the generation gateway returned
ResolvedWithGenerated ==
    /\ epc = "resolved"
    /\ eResult = [original |-> eEntry.value, translated |-> generateCalls[1].ret,
                  isNew |-> eMethod = "translateEntry"]

\* C14: in translateEntry, after a failed findSimilarTranslations the generation
\* gateway is still called, with an empty list of similar examples; a failed
\* addTranslation leaves the call resolved with {original: entry.value,
\* translated: the generated text, isNew: true}; the call rejects only when the
\* generation call failed.
C14_IndexFailuresRecovered ==
    eMethod = "translateEntry" =>
        /\ FindFailed =>
              /\ Len(generateCalls) = 1
              /\ generateCalls[1].similar = [def |-> TRUE, list |-> <<>>]
        /\ AddOut = "failed" => (ResolvedWithGenerated /\ eResult.isNew)
        /\ epc = "rejected" => GenerateOut = "failed"
        /\ (GenerateOut = "ok" /\ AddOut # "pending") => (ResolvedWithGenerated /\ eResult.isNew)

\* C14 witness: a call resolved although both index calls failed
C14_Witness ==
    /\ eMethod = "translateEntry" /\ epc = "resolved"
    /\ FindFailed /\ AddOut = "failed"

\* C15: when the generation call fails the call rejects and no addTranslation
\* call is made; an addTranslation call is made only after the generation call
\* has returned, with the returned text.
C15_GenerationFailurePropagates ==
    eMethod = "translateEntry" =>
        /\ GenerateOut = "failed" => (epc = "rejected" /\ addCalls = <<>>)
        /\ addCalls # <<>> =>
              /\ GenerateOut = "ok"
              /\ addCalls[1].translation = generateCalls[1].ret
              /\ addCalls[1].sourceText = eEntry.value

\* C15 witness: a call with the index in use rejected after a failed generation
C15_Witness ==
    /\ eMethod = "translateEntry" /\ epc = "rejected"
    /\ UsesIndex /\ findCalls # <<>> /\ GenerateOut = "failed"

\* C16: reviewEntry makes one addTranslation(sourceEntry.value, improved) call
\* when the improved text differs from targetEntry.value and a client is there,
\* and none otherwise; a failure of that call leaves reviewEntry resolved.
C16_ReviewStoresOnlyChanges ==
    (eMethod = "reviewEntry" /\ GenerateOut = "ok") =>
        /\ findCalls = <<>>
        /\ Len(addCalls) = (IF generateCalls[1].ret # eTarget /\ eClient THEN 1 ELSE 0)
        /\ addCalls # <<>> =>
              /\ addCalls[1].sourceText = eEntry.value
              /\ addCalls[1].translation = generateCalls[1].ret
        /\ AddOut # "pending" => ResolvedWithGenerated

\* C16 witness: a review that changed the text resolved after a failed index write
C16_Witness ==
    /\ eMethod = "reviewEntry" /\ epc = "resolved"
    /\ eResult.translated # eTarget /\ AddOut = "failed"

\* C18: with useVectorDB = false translateEntry calls neither
\* findSimilarTranslations nor addTranslation, client or not, hands no similar
\* examples to the generation gateway and returns the generated translation.
C18_NoIndexWithoutOption ==
    (eMethod = "translateEntry" /\ ~eUseVectorDB) =>
        /\ findCalls = <<>> /\ addCalls = <<>>
        /\ generateCalls # <<>> => generateCalls[1].similar = NoSimilar
        /\ GenerateOut = "ok" => ResolvedWithGenerated

\* C18 witness: a call with an injected client and useVectorDB = false resolved
C18_Witness ==
    /\ eMethod = "translateEntry" /\ ~eUseVectorDB /\ eClient
    /\ epc = "resolved" /\ eResult.translated = Translated(eEntry.value)

-----------------------------------------------------------------------------
(* aiClient: parsing the response of reviewTranslation.  A response is a  *)
(* sequence of tokens: the two markers, a space, a line break and a letter *)

IMPROVED == "IMPROVED:"
CHANGES == "CHANGES:"
SP == " "
NL == "\n"

ResponseTokens == { IMPROVED, CHANGES, SP, NL, "x" }

\* the sentinel 'No changes provided'
NoChangesProvided == << "No changes provided" >>

IsSpace(ch) == ch \in { SP, NL }

RECURSIVE TrimStart(_)
TrimStart(s) == IF s # <<>> /\ IsSpace(Head(s)) THEN TrimStart(Tail(s)) ELSE s

RECURSIVE TrimEnd(_)
TrimEnd(s) == IF s # <<>> /\ IsSpace(s[Len(s)]) THEN TrimEnd(SubSeq(s, 1, Len(s) - 1)) ELSE s

\* String.prototype.trim
Trim(s) == TrimEnd(TrimStart(s))

\* the text has `pat` at position i
StartsWith(s, i, pat) == i + Len(pat) - 1 <= Len(s) /\ SubSeq(s, i, i + Len(pat) - 1) = pat

\* the leftmost position of `pat`, 0 when there is none
FirstIndex(s, pat) ==
    IF \E i \in 1..Len(s) : StartsWith(s, i, pat)
    THEN CHOOSE i \in 1..Len(s) :
            StartsWith(s, i, pat) /\ \A j \in 1..(i - 1) : ~StartsWith(s, j, pat)
    ELSE 0

NoMatch == [matched |-> FALSE, group |-> <<>>]

\* content.match(/IMPROVED: (.*?)(?=\nCHANGES:|$)/s): from the leftmost
\* "IMPROVED: " the shortest text that is followed by "\nCHANGES:" or by the
\* end of the content
ImprovedMatch(content) ==
    LET i == FirstIndex(content, << IMPROVED, SP >>)
        start == i + 2
        stops == { p \in start..Len(content) : StartsWith(content, p, << NL, CHANGES >>) }
        stop == IF stops = {} THEN Len(content) + 1
                ELSE CHOOSE p \in stops : \A q \in stops : p <= q
    IN IF i = 0 THEN NoMatch
       ELSE [matched |-> TRUE, group |-> SubSeq(content, start, stop - 1)]

\* content.match(/CHANGES: (.*?)$/s): from the leftmost "CHANGES: " to the end
ChangesMatch(content) ==
    LET i == FirstIndex(content, << CHANGES, SP >>)
    IN IF i = 0 THEN NoMatch
       ELSE [matched |-> TRUE, group |-> SubSeq(content, i + 2, Len(content))]

\* `match?.[1]?.trim() || fallback`
GroupOr(match, fallback) ==
    IF match.matched /\ Trim(match.group) # <<>> THEN Trim(match.group) ELSE fallback

\* reviewTranslation from the response text on: trim, match twice, fall back
\* field by field
ParseReview(text, existingTranslation) ==
    LET content == Trim(text)
    IN [improved |-> GroupOr(ImprovedMatch(content), existingTranslation),
        changes |-> GroupOr(ChangesMatch(content), NoChangesProvided)]

NoReview == [improved |-> <<>>, changes |-> <<>>]

ResponseIdle == rpc = "off" /\ rText = <<>> /\ rExisting = <<>> /\ rResult = NoReview

\* a response of the generation backend, of at most MaxResponseLen tokens
ResponseInit ==
    /\ rpc = "responded"
    /\ rText \in SeqsUpTo(ResponseTokens, MaxResponseLen)
    /\ rExisting = << "o" >>
    /\ rResult = NoReview

\* reviewTranslation returns
ReviewReturns ==
    /\ rpc = "responded"
    /\ rResult' = ParseReview(rText, rExisting)
    /\ rpc' = "returned"
    /\ UNCHANGED <<rText, rExisting>>
    /\ UNCHANGED <<parserVars, runVars, vdbVars, glossaryVars, entryVars>>

ResponseNext == ReviewReturns

-----------------------------------------------------------------------------
(* Claims about the review response *)

HasToken(s, t) == \E i \in 1..Len(s) : s[i] = t

IndexOfToken(s, t) == CHOOSE i \in 1..Len(s) : s[i] = t /\ \A j \in 1..(i - 1) : s[j] # t

\* the text after the first IMPROVED: marker up to the next CHANGES: marker
TextAfterImproved(s) ==
    LET i == IndexOfToken(s, IMPROVED)
        rest == SubSeq(s, i + 1, Len(s))
    IN Trim(SubSeq(rest, 1, IndexOfToken(rest, CHANGES) - 1))

\* the text after the first CHANGES: marker
TextAfterChanges(s) == Trim(SubSeq(s, IndexOfToken(s, CHANGES) + 1, Len(s)))

\* a response in the two-field format the prompt asks for: "IMPROVED: " and a
\* text, then on a new line "CHANGES: " and a text
TwoFields(s) ==
    /\ HasToken(s, IMPROVED) /\ HasToken(s, CHANGES)
    /\ IndexOfToken(s, IMPROVED) < IndexOfToken(s, CHANGES)
    /\ s[IndexOfToken(s, IMPROVED) + 1] = SP
    /\ s[IndexOfToken(s, CHANGES) - 1] = NL
    /\ IndexOfToken(s, CHANGES) < Len(s) /\ s[IndexOfToken(s, CHANGES) + 1] = SP
    /\ TextAfterImproved(s) # <<>> /\ TextAfterChanges(s) # <<>>

\* C21 (as stated): when the response omits the IMPROVED: marker or the
\* CHANGES: marker, `improved` is the existing translation and `changes` is the
\* sentinel; when it holds both in the two-field format, `improved` is the
\* text between the markers and `changes` the text after CHANGES:.
C21_ReviewFallback ==
    rpc = "returned" =>
        /\ (~HasToken(rText, IMPROVED) \/ ~HasToken(rText, CHANGES)) =>
              (rResult.improved = rExisting /\ rResult.changes = NoChangesProvided)
        /\ TwoFields(rText) =>
              /\ rResult.improved = TextAfterImproved(rText)
              /\ rResult.changes = TextAfterChanges(rText)

-----------------------------------------------------------------------------
(* Specifications *)

BatchIdle ==
    /\ work = <<>> /\ bpc = "idle" /\ bi = 0 /\ batchNumber = Num(0) /\ window = {} /\ est = <<>>
    /\ results = EmptyMap /\ completed = 0 /\ genCalls = 0 /\ genFailed = {}
    /\ termsSeen = {}
    /\ indexWrites = {}

RunIdle ==
    /\ op = "off" /\ allFlag = FALSE /\ useVectorDB = FALSE /\ concurrency = DefaultConcurrency
    /\ useGlossary = FALSE /\ glossaryFile = "off"
    /\ sourceFile = "off" /\ targetFile = "off"
    /\ sourceEntries = <<>> /\ targetEntries = <<>>
    /\ dpc = "off" /\ client = FALSE /\ glossary = FALSE /\ handed = <<>>
    /\ BatchIdle
    /\ merged = <<>> /\ written = 0 /\ destData = <<>>

\* a run starts with its catalogs parsed and its options read; review.ts and
\* the first translate.ts pass no concurrency, so the default applies;
\* batchTranslate takes no target list
RunInit ==
    /\ op \in { "translate", "review", "batchTranslate", "batchReview" }
    /\ allFlag \in (IF op = "review" THEN BOOLEAN ELSE { FALSE })
    /\ useVectorDB \in BOOLEAN
    /\ concurrency \in (IF op = "review" THEN { DefaultConcurrency } ELSE ConcurrencyValues)
    /\ useGlossary = FALSE /\ glossaryFile = "off"
    /\ sourceFile = "valid" /\ targetFile = "valid"
    /\ sourceEntries \in SourceLists
    /\ targetEntries \in (IF op = "batchTranslate" THEN { <<>> } ELSE TargetLists)
    /\ dpc = "start" /\ client = FALSE /\ glossary = FALSE /\ handed = <<>>
    /\ BatchIdle
    /\ merged = <<>> /\ written = 0 /\ destData = <<>>

RunNext ==
    \/ StartTranslate
    \/ StartReview
    \/ StartDirect
    \/ WindowStart
    \/ \E n \in DOMAIN est : FindSimilarReturns(n)
    \/ \E n \in DOMAIN est : GenerateReturns(n)
    \/ \E n \in DOMAIN est : GenerateFails(n)
    \/ \E n \in DOMAIN est : AddTranslationReturns(n)
    \/ WindowEnd
    \/ BatchReturn
    \/ FinishTranslate
    \/ FinishReview

\* a driver run on catalog files that are valid, malformed or absent, with
\* the default concurrency
FilesInit ==
    /\ op \in { "translate", "review" }
    /\ allFlag \in (IF op = "review" THEN BOOLEAN ELSE { FALSE })
    /\ useVectorDB \in BOOLEAN
    /\ concurrency = DefaultConcurrency
    /\ useGlossary = FALSE /\ glossaryFile = "off"
    /\ sourceFile \in { "valid", "malformed", "absent" }
    /\ targetFile \in { "valid", "malformed", "absent" }
    /\ sourceEntries \in (IF sourceFile = "valid" THEN SourceLists ELSE { <<>> })
    /\ targetEntries \in (IF targetFile = "valid" THEN TargetLists ELSE { <<>> })
    /\ dpc = "start" /\ client = FALSE /\ glossary = FALSE /\ handed = <<>>
    /\ BatchIdle
    /\ merged = <<>> /\ written = 0 /\ destData = <<>>

DriverNext ==
    \/ StartTranslate
    \/ StartReview
    \/ WindowStart
    \/ \E n \in DOMAIN est : FindSimilarReturns(n)
    \/ \E n \in DOMAIN est : GenerateReturns(n)
    \/ \E n \in DOMAIN est : GenerateFails(n)
    \/ \E n \in DOMAIN est : AddTranslationReturns(n)
    \/ WindowEnd
    \/ BatchReturn
    \/ FinishTranslate
    \/ FinishReview

\* a driver run with the glossary option on or off and a glossary file that
\* is valid, malformed, absent, or absent where it cannot be created
GlossaryRunInit ==
    /\ op \in { "translate", "review" }
    /\ allFlag \in (IF op = "review" THEN BOOLEAN ELSE { FALSE })
    /\ useVectorDB \in BOOLEAN
    /\ concurrency = DefaultConcurrency
    /\ useGlossary \in BOOLEAN
    /\ glossaryFile \in (IF useGlossary THEN { "valid", "malformed", "absent", "unwritable" }
                          ELSE { "off" })
    /\ sourceFile = "valid" /\ targetFile = "valid"
    /\ sourceEntries \in SourceLists
    /\ targetEntries \in TargetLists
    /\ dpc = "start" /\ client = FALSE /\ glossary = FALSE /\ handed = <<>>
    /\ BatchIdle
    /\ merged = <<>> /\ written = 0 /\ destData = <<>>

\* the integers a caller or `--concurrency <number>` (parseInt) can pass
ConcurrencyOptions == (0 - MaxNegative)..MaxConcurrency

\* a direct batch call with any integer concurrency
TerminationInit ==
    /\ op \in { "batchTranslate", "batchReview" }
    /\ allFlag = FALSE
    /\ useVectorDB \in BOOLEAN
    /\ concurrency \in ConcurrencyOptions
    /\ useGlossary = FALSE /\ glossaryFile = "off"
    /\ sourceFile = "valid" /\ targetFile = "valid"
    /\ sourceEntries \in SourceLists
    /\ targetEntries \in (IF op = "batchTranslate" THEN { <<>> } ELSE TargetLists)
    /\ dpc = "start" /\ client = FALSE /\ glossary = FALSE /\ handed = <<>>
    /\ BatchIdle
    /\ merged = <<>> /\ written = 0 /\ destData = <<>>

BatchNext ==
    \/ StartDirect
    \/ WindowStart
    \/ \E n \in DOMAIN est : FindSimilarReturns(n)
    \/ \E n \in DOMAIN est : GenerateReturns(n)
    \/ \E n \in DOMAIN est : GenerateFails(n)
    \/ \E n \in DOMAIN est : AddTranslationReturns(n)
    \/ WindowEnd
    \/ BatchReturn

\* one driver run or direct batch call
Init == RunInit /\ ParserIdle /\ VdbIdle /\ GlossaryIdle /\ EntryIdle /\ ResponseIdle

Next == RunNext

Spec == Init /\ [][Next]_vars

\* the catalog model's pure operations on bounded inputs
InitParser == ParserInit /\ RunIdle /\ VdbIdle /\ GlossaryIdle /\ EntryIdle /\ ResponseIdle

SpecParser == InitParser /\ [][ParserNext]_vars

\* one vector DB client from the factory and the calls made on it
InitVectorDB == VdbInit /\ ParserIdle /\ RunIdle /\ GlossaryIdle /\ EntryIdle /\ ResponseIdle

SpecVectorDB == InitVectorDB /\ [][VdbNext]_vars

\* one Glossary object and the calls made on it
InitGlossary == GlossaryInit /\ ParserIdle /\ RunIdle /\ VdbIdle /\ EntryIdle /\ ResponseIdle

SpecGlossary == InitGlossary /\ [][GlossaryNext]_vars

\* one translateEntry / reviewEntry call
InitEntry == EntryInit /\ ParserIdle /\ RunIdle /\ VdbIdle /\ GlossaryIdle /\ ResponseIdle

SpecEntry == InitEntry /\ [][EntryNext]_vars

\* one driver run on catalog files of any condition
InitFiles == FilesInit /\ ParserIdle /\ VdbIdle /\ GlossaryIdle /\ EntryIdle /\ ResponseIdle

SpecFiles == InitFiles /\ [][DriverNext]_vars

\* one driver run by the state of the glossary file
InitGlossaryRun ==
    GlossaryRunInit /\ ParserIdle /\ VdbIdle /\ GlossaryIdle /\ EntryIdle /\ ResponseIdle

SpecGlossaryRun == InitGlossaryRun /\ [][DriverNext]_vars

\* one direct batch call in which every step that can be taken is taken in
\* the end: the loop goes on and every gateway call settles
InitTermination ==
    TerminationInit /\ ParserIdle /\ VdbIdle /\ GlossaryIdle /\ EntryIdle /\ ResponseIdle

SpecTermination == InitTermination /\ [][BatchNext]_vars /\ WF_vars(BatchNext)

\* one Glossary object whose terms are any text, "__proto__" included
InitGlossaryTerms ==
    GlossaryTermsInit /\ ParserIdle /\ RunIdle /\ VdbIdle /\ EntryIdle /\ ResponseIdle

SpecGlossaryTerms == InitGlossaryTerms /\ [][GlossaryNext]_vars

\* one response of the generation backend to a review request
InitResponse ==
    ResponseInit /\ ParserIdle /\ RunIdle /\ VdbIdle /\ GlossaryIdle /\ EntryIdle

SpecResponse == InitResponse /\ [][ResponseNext]_vars

====
